---- MODULE Spec2Model ----
(***************************************************************************)
(* A model of leafstore's LeafstoreModel / LeafstoreSchema /               *)
(* LeafstoreDocument (src/src/model.js) running on an IndexedDB object     *)
(* store created with keyPath "_key" (src/src/leafstore.js:133-135).       *)
(*                                                                         *)
(* One step of the model is one task of the JavaScript event loop: the     *)
(* synchronous part of an API call, one IndexedDB request event together   *)
(* with the handler the code registered for it, or one setTimeout          *)
(* callback.  IndexedDB runs transactions over the same object store in    *)
(* the order in which they were created, and aborts (rolls back) a         *)
(* transaction when a request of it fails without preventDefault() or when *)
(* an event handler throws.                                                *)
(***************************************************************************)
EXTENDS Integers, Sequences, FiniteSets, TLC

VARIABLES
    store,          \* the object store: key index -> stored record
    snapshot,       \* the store content when the running transaction started
    _deletedKeys,   \* LeafstoreModel._deletedKeys
    calls,          \* the API calls made so far, with their promises
    txs,            \* the IndexedDB transactions, in creation order
    timers,         \* the pending setTimeout(..., 0) callbacks, in order
    docs,           \* the LeafstoreDocument objects handed to the caller
    lastSettled,    \* the call whose promise settled in the last task
    failures,       \* number of requests the store has failed so far
    leafstore,      \* the leafstore object: its _db and its _models
    models,         \* the LeafstoreModel objects constructed so far
    idb             \* the IndexedDB database of leafstore.dbName

vars == <<store, snapshot, _deletedKeys, calls, txs, timers, docs,
          lastSettled, failures, leafstore, models, idb>>

\* the leafstore object, its models and its database
registry == <<leafstore, models, idb>>

(***************************************************************************)
(* Bounds of the model.                                                    *)
(***************************************************************************)
MaxKey == 2         \* number of distinct primary keys
MaxCalls == 2       \* number of API calls in one behaviour
MaxFailures == 1    \* number of requests the store may fail
MaxAssigned == 1    \* number of calls to whose documents the caller assigns
MaxModelCalls == 3  \* number of calls of Model(name, schema)

(***************************************************************************)
(* JavaScript values.  A string is either one of the named strings or the  *)
(* n-th primary key string (s = "key"), the keys being numbered in         *)
(* IndexedDB's key order.  The named strings are not numeric, so comparing *)
(* one with a number coerces it to NaN.                                    *)
(***************************************************************************)
Undefined == [type |-> "undefined", n |-> 0, s |-> ""]
Num(n) == [type |-> "number", n |-> n, s |-> ""]
Str(s) == [type |-> "string", n |-> 0, s |-> s]
Key(i) == [type |-> "string", n |-> i, s |-> "key"]

Keys == 1 .. MaxKey

\* !value
Falsy(v) ==
    \/ v.type = "undefined"
    \/ v.type = "number" /\ v.n = 0
    \/ v.type = "string" /\ v.s = ""
    \/ v.type = "boolean" /\ v.n = 0

\* a plain object: a function from its own property names to values
EmptyObject == [f \in {} |-> Undefined]

\* object[key]
Get(object, key) == IF key \in DOMAIN object THEN object[key] ELSE Undefined

\* object[key] = value
Put(object, key, value) ==
    [f \in DOMAIN object \cup {key} |-> IF f = key THEN value ELSE object[f]]

\* { ...a, ...b }
Spread(a, b) ==
    [f \in DOMAIN a \cup DOMAIN b |-> IF f \in DOMAIN b THEN b[f] ELSE a[f]]

(***************************************************************************)
(* LeafstoreSchema.  The template is that of the README's and the          *)
(* specification's running example,                                        *)
(*     { name: "string", age: { type: "number", minValue: 18 } }           *)
(* and _schema is what #generateSchema compiles it to: the root gets _key, *)
(* a bare type tag gets no validators, a descriptor gets #validators'.     *)
(***************************************************************************)
MinAge == 18

\* the property order of the compiled schema (for ... in order)
SchemaOrder == <<"_key", "name", "age">>

_schema ==
    [f \in {"_key", "name", "age"} |->
        CASE f = "_key" -> [_type |-> "string", _validators |-> <<>>]
          [] f = "name" -> [_type |-> "string", _validators |-> <<>>]
          [] f = "age"  -> [_type |-> "number",
                            _validators |-> <<[kind |-> "minValue", arg |-> MinAge]>>]]

\* one validator of #validators applied to a value: TRUE when it throws
ValidatorThrows(validator, value) ==
    CASE validator.kind = "required" -> Falsy(value)
      [] validator.kind = "minValue" ->
            value.type = "number" /\ value.n < validator.arg
      [] validator.kind = "maxValue" ->
            value.type = "number" /\ value.n > validator.arg
      [] OTHER -> FALSE

\* fieldProps._validators?.forEach((validator) => validator(object[key]))
FieldThrows(object, key) ==
    \E i \in 1 .. Len(_schema[key]._validators) :
        ValidatorThrows(_schema[key]._validators[i], Get(object, key))

\* validate(object): TRUE when it returns, FALSE when it throws
validate(object) ==
    \A i \in 1 .. Len(SchemaOrder) : ~FieldThrows(object, SchemaOrder[i])

\* cast(object): exactly the schema's fields, values copied through
cast(object) == [f \in DOMAIN _schema |-> Get(object, f)]

(***************************************************************************)
(* Queries.  A query is absent (undefined / null), a bare string (taken    *)
(* as a primary key) or an object; an object query is the sequence of its  *)
(* (field, operator, operand) entries in property order, a bare scalar     *)
(* value of a field being the entry with operator "scalar".                *)
(***************************************************************************)
AbsentQuery == [kind |-> "absent", key |-> Undefined, conds |-> <<>>]
KeyQuery(i) == [kind |-> "key", key |-> Key(i), conds |-> <<>>]
ObjQuery(conds) == [kind |-> "object", key |-> Undefined, conds |-> conds]
Cond(field, op, val) == [field |-> field, op |-> op, val |-> val]

\* !query
QueryFalsy(query) ==
    query.kind = "absent" \/ (query.kind = "key" /\ Falsy(query.key))

\* the names of supportedOperators
supportedOperators ==
    {"$eq", "$gt", "$gte", "$lt", "$lte", "$in", "$nin", "$ne", "$regex"}

\* array.includes(value)
Includes(array, value) == \E i \in 1 .. Len(array) : array[i] = value

\* operatorFunc(a, b) of the operator named op.  The operand of $in and
\* $nin is a sequence of values; a pattern (the operand of $regex) is
\* given by the sequence of the model's strings it matches.
operatorFunc(op, a, b) ==
    CASE op = "$eq"  -> a = b
      [] op = "$ne"  -> a # b
      [] op = "$gt"  -> a.type = "number" /\ b.type = "number" /\ a.n > b.n
      [] op = "$gte" -> a.type = "number" /\ b.type = "number" /\ a.n >= b.n
      [] op = "$lt"  -> a.type = "number" /\ b.type = "number" /\ a.n < b.n
      [] op = "$lte" -> a.type = "number" /\ b.type = "number" /\ a.n <= b.n
      [] op = "$in"  -> Includes(b, a)
      [] op = "$nin" -> ~Includes(b, a)
      [] op = "$regex" -> a.type = "string" /\ Includes(b, a)
      [] OTHER -> FALSE

\* doesMatch(document) from the i-th entry of the query on:
\* "true", "false", or "throw" for an operator that is not supported
RECURSIVE MatchFrom(_, _, _)
MatchFrom(document, conds, i) ==
    IF i > Len(conds) THEN "true"
    ELSE LET c == conds[i] IN
         IF c.field \notin DOMAIN document THEN "false"
         ELSE IF c.op = "scalar"
              THEN IF document[c.field] # c.val THEN "false"
                   ELSE MatchFrom(document, conds, i + 1)
         ELSE IF c.op \notin supportedOperators THEN "throw"
         ELSE IF ~operatorFunc(c.op, document[c.field], c.val) THEN "false"
         ELSE MatchFrom(document, conds, i + 1)

\* a match as soon as one entry of the query holds
doesMatchAny(document, query) ==
    IF \E i \in 1 .. Len(query.conds) :
            MatchFrom(document, <<query.conds[i]>>, 1) = "true"
    THEN "true" ELSE "false"

\* doesMatch(document); the properties of a string query are its character
\* indices, which no document owns
doesMatch(document, query) ==
    IF query.kind = "key" THEN "false"
    ELSE MatchFrom(document, query.conds, 1)

\* #filterDeleted(documents)
filterDeleted(documents) ==
    SelectSeq(documents, LAMBDA d : ~Includes(_deletedKeys, Get(d, "_key")))

\* the index of the first document of ds that doesMatch holds for
\* (Len(ds) + 1: none)
FirstMatch(ds, query) ==
    IF \E i \in 1 .. Len(ds) : doesMatch(ds[i], query) = "true"
    THEN CHOOSE i \in 1 .. Len(ds) :
            /\ doesMatch(ds[i], query) = "true"
            /\ \A j \in 1 .. i - 1 : doesMatch(ds[j], query) # "true"
    ELSE Len(ds) + 1

\* documents.find(doesMatch): stops at the first match
FindMatch(ds, query, first) ==
    [threw |-> \E i \in 1 .. Len(ds) :
                    i < first /\ doesMatch(ds[i], query) = "throw",
     whole |-> FALSE,
     docs |-> IF first > Len(ds) THEN <<>> ELSE <<ds[first]>>]

\* documents.filter(doesMatch)
FilterMatch(ds, query) ==
    [threw |-> \E i \in 1 .. Len(ds) : doesMatch(ds[i], query) = "throw",
     whole |-> FALSE,
     docs |-> SelectSeq(ds, LAMBDA d : doesMatch(d, query) = "true")]

\* #parseQuery(query, documents, returnOne).  whole: the documents array
\* itself was returned (!query); threw: doesMatch threw; docs: the matches
\* (for returnOne the first match alone, or none).
parseQuery(query, documents, returnOne) ==
    IF QueryFalsy(query)
    THEN [threw |-> FALSE, whole |-> TRUE, docs |-> documents]
    ELSE IF returnOne
    THEN FindMatch(filterDeleted(documents), query,
                   FirstMatch(filterDeleted(documents), query))
    ELSE FilterMatch(filterDeleted(documents), query)

(***************************************************************************)
(* The IndexedDB object store (keyPath "_key", no key generator).          *)
(***************************************************************************)
\* a value the store accepts as a key
ValidKey(v) == v.type = "string" /\ v.s = "key" /\ v.n \in Keys

\* the records of st in key order, from key index i on
RECURSIVE RecordsFrom(_, _)
RecordsFrom(st, i) ==
    IF i > MaxKey THEN <<>>
    ELSE (IF i \in DOMAIN st THEN <<st[i]>> ELSE <<>>) \o RecordsFrom(st, i + 1)

\* idbQuery: the query when typeof query === "string", null otherwise
IdbQuery(query) == IF query.kind = "key" THEN query.key ELSE Undefined

\* the records of st in reverse key order
getAllDown(st, idbQuery) ==
    [j \in 1 .. Cardinality(DOMAIN st) |->
        st[CHOOSE k \in DOMAIN st :
                Cardinality({l \in DOMAIN st : l >= k}) = j]]

\* objectStore.getAll(idbQuery)
getAll(st, idbQuery) ==
    IF idbQuery.type = "string"
    THEN IF ValidKey(idbQuery) /\ idbQuery.n \in DOMAIN st
         THEN <<st[idbQuery.n]>> ELSE <<>>
    ELSE RecordsFrom(st, 1)

\* objectStore.get(key): the record in a one-element sequence, or none
get(st, key) ==
    IF ValidKey(key) /\ key.n \in DOMAIN st THEN <<st[key.n]>> ELSE <<>>

\* the store after put(object) / a successful add(object)
StorePut(st, object) ==
    [k \in DOMAIN st \cup {object["_key"].n} |->
        IF k = object["_key"].n THEN object ELSE st[k]]

\* the store after delete(key)
StoreDelete(st, key) == [k \in DOMAIN st \ {key.n} |-> st[k]]

\* a request of a transaction: its kind, its arguments, the handlers the
\* code attached (named by cb) and the documents their closure holds
Request(type, key, object, cb, closure) ==
    [type |-> type, key |-> key, object |-> object, cb |-> cb,
     closure |-> closure]

\* this._db.transaction(...) with its first request, made for call c
\* (0: made by #deleteByKey, whose handlers belong to no promise)
Transaction(c, request) == [call |-> c, reqs |-> <<request>>]

(***************************************************************************)
(* API calls and their promises.                                           *)
(*   status  "pending" | "resolved" | "rejected"                           *)
(*   result  what the promise resolved with                                *)
(*   after   the call whose promise settled in the task just before this   *)
(*           call was made (0: none): the call was made by the             *)
(*           continuation of that promise, before any other task ran       *)
(*   gen     the key #addUniqueKey generated for the call (0: none)        *)
(*   writes  number of add / put requests the call has issued              *)
(*   vfail   validate threw for a record of the call                       *)
(*   targets the keys of the documents the call's query matched            *)
(*   doc     the document whose save() the call is (0: none)               *)
(***************************************************************************)
Result(kind, documents) == [kind |-> kind, docs |-> documents]
NoResult == Result("none", <<>>)

Call(op, query, object, key) ==
    [op |-> op, query |-> query, object |-> object, key |-> key,
     status |-> "pending", result |-> NoResult, error |-> "",
     after |-> lastSettled, gen |-> 0, writes |-> 0, vfail |-> FALSE,
     targets |-> {}, doc |-> 0]

(***************************************************************************)
(* What running one piece of the code does, as a record: the settlement of *)
(* the call's promise (status "": none), the requests it adds to the       *)
(* running transaction, the transactions and timers it creates, whether it *)
(* threw, and the key it removes from _deletedKeys.                        *)
(***************************************************************************)
NoEffect ==
    [status |-> "", result |-> NoResult, error |-> "", reqs |-> <<>>,
     txs |-> <<>>, timers |-> <<>>, threw |-> FALSE, vfail |-> FALSE,
     writes |-> 0, targets |-> {}, uncache |-> Undefined]

\* resolve(value)
Resolve(result) == [NoEffect EXCEPT !.status = "resolved", !.result = result]

\* reject(error)
Reject(error) == [NoEffect EXCEPT !.status = "rejected", !.error = error]

\* an exception leaves the handler
Throw == [NoEffect EXCEPT !.threw = TRUE]

\* this._schema.validate(...) threw inside a handler
ThrowValidation == [NoEffect EXCEPT !.threw = TRUE, !.vfail = TRUE]

\* the _key values of a sequence of documents
KeysOf(documents) == {Get(documents[i], "_key") : i \in 1 .. Len(documents)}

\* #deleteByKey(key): the transactions it creates
deleteByKey(key) ==
    IF Falsy(key) THEN <<>>
    ELSE <<Transaction(0, Request("delete", key, EmptyObject, "deleteByKey", <<>>))>>

\* #deleteByKeys(keys): the timers it sets, one per key
deleteByKeys(keys) == keys

(***************************************************************************)
(* The request.onsuccess handlers.  call is the call that registered the   *)
(* handler, result the request's result: for get and getAll the sequence   *)
(* of records read.                                                        *)
(***************************************************************************)
\* findByKey: request.onsuccess; kept is [result] = #filterDeleted([result])
FindByKeyResult(kept) ==
    IF kept # <<>> THEN Resolve(Result("document", kept))
    ELSE Resolve(Result("null", <<>>))

OnFindByKeyGet(call, result) ==
    FindByKeyResult(IF result # <<>> THEN filterDeleted(result) ELSE <<>>)

\* findOne: request.onsuccess, pq being what #parseQuery returned.  With no
\* query #parseQuery returns the array, which is wrapped as it is.
FindOneResult(pq) ==
    IF pq.threw THEN Throw
    ELSE IF pq.whole THEN Resolve(Result("arrayDocument", pq.docs))
    ELSE IF pq.docs # <<>> THEN Resolve(Result("document", pq.docs))
    ELSE Resolve(Result("null", <<>>))

OnFindOneGetAll(call, result) ==
    FindOneResult(parseQuery(call.query, result, TRUE))

\* find: request.onsuccess
FindResult(pq) ==
    IF pq.threw THEN Throw ELSE Resolve(Result("documents", pq.docs))

OnFindGetAll(call, result) ==
    FindResult(parseQuery(call.query, result, FALSE))

\* count: request.onsuccess; the number is the length of result.docs
CountResult(pq) ==
    IF pq.threw THEN Throw ELSE Resolve(Result("number", pq.docs))

\* count stopping at the first match
OnCountGetFirst(call, result) ==
    CountResult(parseQuery(call.query, result, TRUE))

OnCountGetAll(call, result) ==
    CountResult(parseQuery(call.query, result, FALSE))

\* deleteOne: request.onsuccess once the document is found; key is
\* document._key, undefined when nothing matched and for the array that
\* #parseQuery returns when there is no query
DeleteOneKey(threw, key) ==
    IF threw THEN Throw
    ELSE [Resolve(Result("void", <<>>)) EXCEPT
            !.txs = deleteByKey(key),
            !.targets = IF Falsy(key) THEN {} ELSE {key}]

DeleteOneResult(pq) ==
    DeleteOneKey(pq.threw,
                 IF pq.whole \/ pq.docs = <<>> THEN Undefined
                 ELSE Get(pq.docs[1], "_key"))

OnDeleteOneGetAll(call, result) ==
    DeleteOneResult(parseQuery(call.query, result, TRUE))

\* deleteMany: request.onsuccess
DeleteManyResult(pq) ==
    IF pq.threw THEN Throw
    ELSE [Resolve(Result("void", <<>>)) EXCEPT
            !.timers = deleteByKeys([i \in 1 .. Len(pq.docs) |->
                                        Get(pq.docs[i], "_key")]),
            !.targets = KeysOf(pq.docs)]

OnDeleteManyGetAll(call, result) ==
    DeleteManyResult(parseQuery(call.query, result, FALSE))

\* the merged record without the original key put back
UpdatedObjectKeepsPatchKey(document, object, key) ==
    cast(Spread(document, object))

\* the merged record an update writes for document: validated, cast, and
\* the original key put back
UpdatedObject(document, object, key) ==
    Put(cast(Spread(document, object)), "_key", key)

\* findByKeyAndUpdate: request.onsuccess.  resolve(new LeafstoreDocument(
\* object, ...)) at its end runs whenever nothing threw before it.
FindByKeyAndUpdateResult(call, kept) ==
    IF kept = <<>> THEN Reject("NotFound")
    ELSE IF ~validate(Spread(kept[1], call.object)) THEN ThrowValidation
    ELSE IF ~ValidKey(call.key) THEN Throw
    ELSE [Resolve(Result("document", <<call.object>>)) EXCEPT
            !.reqs = <<Request("put", Undefined,
                               UpdatedObject(kept[1], call.object, call.key),
                               "findByKeyAndUpdate.put", <<>>)>>,
            !.writes = 1,
            !.targets = {call.key}]

OnFindByKeyAndUpdateGet(call, result) ==
    FindByKeyAndUpdateResult(call, IF result # <<>> THEN filterDeleted(result)
                                   ELSE <<>>)

\* updateOne: request.onsuccess.  With no query the document is the array:
\* its index properties are no schema fields and its _key is undefined, so
\* put throws DataError.
UpdateOneResult(call, pq) ==
    IF pq.threw THEN Throw
    ELSE IF pq.whole
         THEN IF ~validate(call.object) THEN ThrowValidation ELSE Throw
    ELSE IF pq.docs = <<>> THEN Reject("NotFound")
    ELSE IF ~validate(Spread(pq.docs[1], call.object)) THEN ThrowValidation
    ELSE [NoEffect EXCEPT
            !.reqs = <<Request("put", Undefined,
                               UpdatedObject(pq.docs[1], call.object,
                                             Get(pq.docs[1], "_key")),
                               "updateOne.put", <<>>)>>,
            !.writes = 1,
            !.targets = KeysOf(pq.docs)]

OnUpdateOneGetAll(call, result) ==
    UpdateOneResult(call, parseQuery(call.query, result, TRUE))

\* the number of documents documents.forEach gets through in updateMany:
\* it stops at the first one validate throws for
Updated(documents, object) ==
    IF \A i \in 1 .. Len(documents) : validate(Spread(documents[i], object))
    THEN Len(documents)
    ELSE (CHOOSE i \in 1 .. Len(documents) :
            /\ ~validate(Spread(documents[i], object))
            /\ \A j \in 1 .. i - 1 : validate(Spread(documents[j], object))) - 1

\* updateMany: request.onsuccess.  documents.forEach validates and puts one
\* document after the other; n of them are put.
UpdateManyPuts(call, documents, n) ==
    [NoEffect EXCEPT
        !.reqs = [i \in 1 .. n |->
                    Request("put", Undefined,
                            UpdatedObject(documents[i], call.object,
                                          Get(documents[i], "_key")),
                            "updateMany.put", documents)],
        !.writes = n,
        !.threw = n < Len(documents),
        !.vfail = n < Len(documents),
        !.targets = KeysOf(documents)]

UpdateManyResult(call, pq) ==
    IF pq.threw THEN Throw
    ELSE UpdateManyPuts(call, pq.docs, Updated(pq.docs, call.object))

OnUpdateManyGetAll(call, result) ==
    UpdateManyResult(call, parseQuery(call.query, result, FALSE))

\* request.onsuccess of the request req of call, with the request's result
onsuccess(call, req, result) ==
    CASE req.cb = "create.add" -> Resolve(Result("document", <<req.object>>))
      [] req.cb = "insertOne.put" -> Resolve(Result("document", <<req.object>>))
      [] req.cb = "findByKey.get" -> OnFindByKeyGet(call, result)
      [] req.cb = "findOne.getAll" -> OnFindOneGetAll(call, result)
      [] req.cb = "find.getAll" -> OnFindGetAll(call, result)
      [] req.cb = "count.getAll" -> OnCountGetAll(call, result)
      [] req.cb = "findByKeyAndDelete.delete" -> Resolve(Result("void", <<>>))
      [] req.cb = "deleteOne.getAll" -> OnDeleteOneGetAll(call, result)
      [] req.cb = "deleteMany.getAll" -> OnDeleteManyGetAll(call, result)
      [] req.cb = "deleteAll.clear" -> Resolve(Result("void", <<>>))
      [] req.cb = "findByKeyAndUpdate.get" -> OnFindByKeyAndUpdateGet(call, result)
      [] req.cb = "findByKeyAndUpdate.put" ->
            Resolve(Result("document", <<req.object>>))
      [] req.cb = "updateOne.getAll" -> OnUpdateOneGetAll(call, result)
      [] req.cb = "updateOne.put" -> Resolve(Result("document", <<req.object>>))
      [] req.cb = "updateMany.getAll" -> OnUpdateManyGetAll(call, result)
      [] req.cb = "updateMany.put" -> Resolve(Result("documents", req.closure))
      [] req.cb = "deleteByKey" -> [NoEffect EXCEPT !.uncache = req.key]
      [] OTHER -> NoEffect

\* request.onerror of the request req, failed with error: every handler
\* rejects with request.error, but #deleteByKey's, which does nothing
onerror(req, error) ==
    IF req.cb = "deleteByKey" THEN NoEffect ELSE Reject(error)

(***************************************************************************)
(* The synchronous part of each API method: the body of the promise        *)
(* executor up to the request it issues.  An exception in it is caught and *)
(* rejects the promise.  The database is connected (this._db is set).      *)
(***************************************************************************)
\* the call is appended with the transactions it created
Issue(call, newTxs) ==
    /\ Len(calls) < MaxCalls
    /\ calls' = Append(calls, call)
    /\ txs' = txs \o newTxs
    /\ lastSettled' = 0
    /\ UNCHANGED <<store, snapshot, _deletedKeys, timers, docs, failures>>
    /\ UNCHANGED registry

\* a call whose executor threw: reject(error)
Rejected(call, error) == [call EXCEPT !.status = "rejected", !.error = error]

\* a call that issued its first request
Requested(call, type, key, object, cb) ==
    Issue(call, <<Transaction(Len(calls) + 1,
                              Request(type, key, object, cb, <<>>))>>)

\* #addUniqueKey(object), k being the key that timestamp and random make
addUniqueKey(object, k) == Put(object, "_key", Key(k))

\* create(object)
create(object) ==
    LET call == Call("create", AbsentQuery, object, Undefined)
    IN IF ~validate(object)
       THEN Issue([Rejected(call, "ValidationError") EXCEPT !.vfail = TRUE], <<>>)
       ELSE \E k \in Keys :
                Requested([call EXCEPT !.gen = k, !.writes = 1], "add", Undefined,
                          addUniqueKey(cast(object), k), "create.add")

\* the executor of insertOne(object, key), call being the call made.  put
\* throws DataError for an object that has no valid _key, the store having
\* no key generator.
InsertOne(call, object, key) ==
    LET generate == Falsy(key) /\ Falsy(Get(cast(object), "_key"))
    IN IF ~validate(object)
       THEN Issue([Rejected(call, "ValidationError") EXCEPT !.vfail = TRUE], <<>>)
       ELSE IF generate
       THEN \E k \in Keys :
                Requested([call EXCEPT !.gen = k, !.writes = 1], "put", Undefined,
                          addUniqueKey(cast(object), k), "insertOne.put")
       ELSE IF ~ValidKey(Get(cast(object), "_key"))
       THEN Issue(Rejected(call, "DataError"), <<>>)
       ELSE Requested([call EXCEPT !.writes = 1], "put", Undefined,
                      cast(object), "insertOne.put")

\* insertOne(object, key)
insertOne(object, key) ==
    InsertOne(Call("insertOne", AbsentQuery, object, key), object, key)

\* findByKey(key)
findByKey(key) ==
    LET call == Call("findByKey", AbsentQuery, EmptyObject, key)
    IN IF Falsy(key) THEN Issue(Rejected(call, "Error"), <<>>)
       ELSE IF ~ValidKey(key) THEN Issue(Rejected(call, "DataError"), <<>>)
       ELSE Requested(call, "get", key, EmptyObject, "findByKey.get")

\* findOne(query)
findOne(query) ==
    Requested(Call("findOne", query, EmptyObject, Undefined),
              "getAll", IdbQuery(query), EmptyObject, "findOne.getAll")

\* find(query)
find(query) ==
    Requested(Call("find", query, EmptyObject, Undefined),
              "getAll", IdbQuery(query), EmptyObject, "find.getAll")

\* count(query)
count(query) ==
    Requested(Call("count", query, EmptyObject, Undefined),
              "getAll", IdbQuery(query), EmptyObject, "count.getAll")

\* findByKeyAndDelete(key)
findByKeyAndDelete(key) ==
    LET call == Call("findByKeyAndDelete", AbsentQuery, EmptyObject, key)
    IN IF Falsy(key) THEN Issue(Rejected(call, "Error"), <<>>)
       ELSE IF ~ValidKey(key) THEN Issue(Rejected(call, "DataError"), <<>>)
       ELSE Requested(call, "delete", key, EmptyObject,
                      "findByKeyAndDelete.delete")

\* deleteOne(query)
deleteOne(query) ==
    Requested(Call("deleteOne", query, EmptyObject, Undefined),
              "getAll", IdbQuery(query), EmptyObject, "deleteOne.getAll")

\* deleteMany(query)
deleteMany(query) ==
    Requested(Call("deleteMany", query, EmptyObject, Undefined),
              "getAll", IdbQuery(query), EmptyObject, "deleteMany.getAll")

\* a deleteAll that removes the records one by one, as deleteMany does
deleteAllByKeys ==
    Requested(Call("deleteAll", AbsentQuery, EmptyObject, Undefined),
              "getAll", Undefined, EmptyObject, "deleteMany.getAll")

\* deleteAll()
deleteAll ==
    Requested(Call("deleteAll", AbsentQuery, EmptyObject, Undefined),
              "clear", Undefined, EmptyObject, "deleteAll.clear")

\* findByKeyAndUpdate(key, object), object being an object
findByKeyAndUpdate(key, object) ==
    LET call == Call("findByKeyAndUpdate", AbsentQuery, object, key)
    IN IF Falsy(key) THEN Issue(Rejected(call, "Error"), <<>>)
       ELSE IF ~ValidKey(key) THEN Issue(Rejected(call, "DataError"), <<>>)
       ELSE Requested(call, "get", key, EmptyObject, "findByKeyAndUpdate.get")

\* updateOne(query, object), object being an object
updateOne(query, object) ==
    Requested(Call("updateOne", query, object, Undefined),
              "getAll", IdbQuery(query), EmptyObject, "updateOne.getAll")

\* updateMany(query, object), object being an object
updateMany(query, object) ==
    Requested(Call("updateMany", query, object, Undefined),
              "getAll", IdbQuery(query), EmptyObject, "updateMany.getAll")

(***************************************************************************)
(* The store runs the first request of the oldest transaction and fires    *)
(* its event; the handler runs in the same task.                           *)
(***************************************************************************)
\* what the store answers to req in state st: the store after the request,
\* the result read, and the error ("" for success)
Execute(st, req) ==
    CASE req.type = "add" ->
            IF req.object["_key"].n \in DOMAIN st
            THEN [store |-> st, result |-> <<>>, error |-> "ConstraintError"]
            ELSE [store |-> StorePut(st, req.object), result |-> <<>>, error |-> ""]
      [] req.type = "put" ->
            [store |-> StorePut(st, req.object), result |-> <<>>, error |-> ""]
      [] req.type = "get" ->
            [store |-> st, result |-> get(st, req.key), error |-> ""]
      [] req.type = "getAll" ->
            [store |-> st, result |-> getAll(st, req.key), error |-> ""]
      [] req.type = "delete" ->
            [store |-> StoreDelete(st, req.key), result |-> <<>>, error |-> ""]
      [] req.type = "clear" ->
            [store |-> [k \in {} |-> EmptyObject], result |-> <<>>, error |-> ""]

\* the promise of call after a piece of code with effect eff has run:
\* resolve and reject act on a pending promise only
Settle(call, eff) ==
    [call EXCEPT
        !.writes = @ + eff.writes,
        !.vfail = @ \/ eff.vfail,
        !.targets = @ \cup eff.targets,
        !.status = IF call.status = "pending" /\ eff.status # ""
                   THEN eff.status ELSE @,
        !.result = IF call.status = "pending" /\ eff.status # ""
                   THEN eff.result ELSE @,
        !.error = IF call.status = "pending" /\ eff.status # ""
                  THEN eff.error ELSE @]

\* the requests left in an aborted transaction fail with AbortError, which
\* their onerror handlers pass to reject
Aborted(call, abort, rest) ==
    IF abort /\ rest # <<>> /\ call.status = "pending"
    THEN [call EXCEPT !.status = "rejected", !.error = "AbortError"]
    ELSE call

\* the LeafstoreDocument objects a resolved promise hands over:
\* new LeafstoreDocument(object, this, false)
NewDocuments(c, before, after) ==
    IF before.status = "pending" /\ after.status = "resolved"
       /\ after.result.kind \in {"document", "documents"}
       /\ before.doc = 0
    THEN [i \in 1 .. Len(after.result.docs) |->
            [call |-> c, _object |-> after.result.docs[i], _isNew |-> FALSE,
             refused |-> FALSE]]
    ELSE <<>>

\* a continuation that clears the flag however the promise settles
SavedWhenSettled(documents, before, after) ==
    IF before.doc # 0 /\ before.status = "pending" /\ after.status # "pending"
    THEN [documents EXCEPT ![before.doc] = [@ EXCEPT !._isNew = FALSE]]
    ELSE documents

\* save()'s continuation of the promise of insertOne, run when it resolves
\* with document: this._object = document._object; this._isNew = false
Saved(documents, before, after) ==
    IF before.doc # 0 /\ before.status = "pending" /\ after.status = "resolved"
    THEN [documents EXCEPT ![before.doc] =
            [@ EXCEPT !._object = after.result.docs[1], !._isNew = FALSE]]
    ELSE documents

\* the handler of the event of request req of transaction tx, the store
\* having answered ans
Handler(tx, req, ans) ==
    IF ans.error # "" THEN onerror(req, ans.error)
    ELSE IF tx.call = 0
    THEN onsuccess(Call("", AbsentQuery, EmptyObject, Undefined), req, ans.result)
    ELSE onsuccess(calls[tx.call], req, ans.result)

\* an event after which the keys a delete call has identified are in
\* _deletedKeys, until a #deleteByKey request for them succeeds
ConcludeCaching(tx, st, eff, abort, rest, after) ==
    /\ store' = IF abort THEN snapshot ELSE st
    /\ snapshot' = IF abort \/ rest = <<>> THEN store' ELSE snapshot
    /\ calls' = IF tx.call = 0 THEN calls ELSE [calls EXCEPT ![tx.call] = after]
    /\ txs' = (IF abort \/ rest = <<>> THEN Tail(txs)
               ELSE <<[tx EXCEPT !.reqs = rest]>> \o Tail(txs)) \o eff.txs
    /\ timers' = timers \o eff.timers
    /\ _deletedKeys' =
            SelectSeq(_deletedKeys \o
                      SelectSeq([i \in 1 .. MaxKey |-> Key(i)],
                                LAMBDA k : /\ k \in eff.targets
                                           /\ after.op \in {"deleteOne", "deleteMany"}),
                      LAMBDA k : k # eff.uncache)
    /\ docs' = IF tx.call = 0 THEN docs
               ELSE Saved(docs, calls[tx.call], after)
                    \o NewDocuments(tx.call, calls[tx.call], after)
    /\ lastSettled' = IF tx.call # 0 /\ calls[tx.call].status = "pending"
                         /\ after.status # "pending"
                      THEN tx.call ELSE 0
    /\ UNCHANGED registry

\* the state after the event: st is the store the request left, eff what
\* the handler did, rest the requests the transaction still has, after the
\* promise of the transaction's call
Conclude(tx, st, eff, abort, rest, after) ==
    /\ store' = IF abort THEN snapshot ELSE st
    /\ snapshot' = IF abort \/ rest = <<>> THEN store' ELSE snapshot
    /\ calls' = IF tx.call = 0 THEN calls ELSE [calls EXCEPT ![tx.call] = after]
    /\ txs' = (IF abort \/ rest = <<>> THEN Tail(txs)
               ELSE <<[tx EXCEPT !.reqs = rest]>> \o Tail(txs)) \o eff.txs
    /\ timers' = timers \o eff.timers
    /\ _deletedKeys' = IF eff.uncache = Undefined THEN _deletedKeys
                       ELSE SelectSeq(_deletedKeys, LAMBDA k : k # eff.uncache)
    /\ docs' = IF tx.call = 0 THEN docs
               ELSE Saved(docs, calls[tx.call], after)
                    \o NewDocuments(tx.call, calls[tx.call], after)
    /\ lastSettled' = IF tx.call # 0 /\ calls[tx.call].status = "pending"
                         /\ after.status # "pending"
                      THEN tx.call ELSE 0
    /\ UNCHANGED registry

\* A failed request whose handler does not call preventDefault(), or a
\* handler that throws, aborts the transaction: its writes are undone.
Handled(tx, ans, eff) ==
    Conclude(tx, ans.store, eff,
             ans.error # "" \/ eff.threw,
             Tail(tx.reqs) \o eff.reqs,
             IF tx.call = 0 THEN Call("", AbsentQuery, EmptyObject, Undefined)
             ELSE Aborted(Settle(calls[tx.call], eff),
                          ans.error # "" \/ eff.threw,
                          Tail(tx.reqs) \o eff.reqs))

\* The event of the first request of the oldest transaction, answered with
\* ans, and its handler.
Dispatch(ans) ==
    Handled(Head(txs), ans, Handler(Head(txs), Head(Head(txs).reqs), ans))

\* the store answers the request
StoreRespond ==
    /\ txs # <<>>
    /\ Dispatch(Execute(store, Head(Head(txs).reqs)))
    /\ UNCHANGED failures

\* the store fails the request with an error of its own (quota, I/O, ...)
StoreFail ==
    /\ txs # <<>>
    /\ failures < MaxFailures
    /\ failures' = failures + 1
    /\ Dispatch([store |-> store, result |-> <<>>, error |-> "StoreError"])

\* a setTimeout(() => this.#deleteByKey(key), 0) callback of #deleteByKeys
TimerFire ==
    /\ timers # <<>>
    /\ txs' = txs \o deleteByKey(Head(timers))
    /\ timers' = Tail(timers)
    /\ lastSettled' = 0
    /\ UNCHANGED <<store, snapshot, _deletedKeys, calls, docs, failures>>
    /\ UNCHANGED registry

(***************************************************************************)
(* LeafstoreDocument: the accessors #addGettersAndSetters defines for the  *)
(* schema's fields the wrapped object owns.                                *)
(***************************************************************************)
privateFields == {"_key"}

\* document[key] = value.  A private field has a getter only, so that the
\* assignment is refused (a TypeError in module code); a name that is no
\* schema field of the object has no accessor.  Neither reaches _object.
Assign(document, key, value) ==
    IF key \in DOMAIN _schema /\ key \in DOMAIN document._object
    THEN IF key \in privateFields
         THEN [document EXCEPT !.refused = TRUE]
         ELSE [document EXCEPT !._isNew = TRUE, !._object = Put(@, key, value)]
    ELSE document

\* the calls to whose documents the caller has assigned
Assigned == {docs[d].call : d \in {e \in DOMAIN docs :
                                    docs[e].refused \/ docs[e]._isNew}}

\* the caller assigns to a property of a document it holds
DocSet(d, key, value) ==
    /\ d \in DOMAIN docs
    /\ Cardinality(Assigned \cup {docs[d].call}) <= MaxAssigned
    /\ docs' = [docs EXCEPT ![d] = Assign(@, key, value)]
    /\ UNCHANGED <<store, snapshot, _deletedKeys, calls, txs, timers,
                   lastSettled, failures>>
    /\ UNCHANGED registry

\* a save() that does not look at the flag
saveAlways(d) ==
    /\ d \in DOMAIN docs
    /\ InsertOne([Call("save", AbsentQuery, docs[d]._object,
                       Get(docs[d]._object, "_key"))
                   EXCEPT !.doc = d],
                 docs[d]._object, Get(docs[d]._object, "_key"))

\* document.save(), d being the document.  A document that is not new is
\* returned at once; for one that is, the promise settles as that of
\* insertOne(this._object, this._object._key) does, and resolves with the
\* document itself.
save(d) ==
    /\ d \in DOMAIN docs
    /\ IF ~docs[d]._isNew
       THEN Issue([Call("save", AbsentQuery, docs[d]._object,
                        Get(docs[d]._object, "_key"))
                    EXCEPT !.doc = d, !.status = "resolved",
                           !.result = Result("this", <<docs[d]._object>>)],
                  <<>>)
       ELSE InsertOne([Call("save", AbsentQuery, docs[d]._object,
                            Get(docs[d]._object, "_key"))
                        EXCEPT !.doc = d],
                      docs[d]._object, Get(docs[d]._object, "_key"))

(***************************************************************************)
(* leafstore (src/src/leafstore.js): the database object, its registry of  *)
(* models and its connection.  A LeafstoreModel object is an element of    *)
(* models, named by its index; a schema is named by the template it was    *)
(* made from.  The IndexedDB database holds, in its "schemas" store, the   *)
(* template of every model that was defined when it was created.           *)
(***************************************************************************)
\* the model names the application uses
ModelNames == {"User", "News"}

\* the schemas.getAll() result order: the key order of the names
NameOrder == <<"News", "User">>

\* name.toLowerCase()
toLowerCase(name) ==
    CASE name = "User" -> "user"
      [] name = "News" -> "news"
      [] OTHER -> name

\* word.endsWith("s")
endsWith_s(word) == word \in {"news", "users"}

\* pluralise(word)
pluralise(word) == IF endsWith_s(word) THEN word ELSE word \o "s"

\* new LeafstoreModel(name, schema, { db, objectStoreName }); an absent
\* objectStoreName is ""
LeafstoreModel(name, schema, db, objectStoreName) ==
    [name |-> name, _schema |-> schema, _db |-> db,
     _objectStoreName |-> IF objectStoreName = "" THEN toLowerCase(name)
                          ELSE objectStoreName]

\* a call of Model(name, schema) and the object it returned (0: it threw)
ModelCall(name, schema, returned) ==
    [op |-> "Model", name |-> name, schema |-> schema, returned |-> returned,
     status |-> IF returned = 0 THEN "threw" ELSE "returned"]

\* the database an earlier session left, the models named in S having been
\* defined when it was created (none: the database does not exist yet)
Database(S) ==
    [version |-> IF S = {} THEN 0 ELSE 1,
     schemas |-> [name \in S |-> "userSchema"],
     stores |-> IF S = {} THEN {}
                ELSE {"schemas"} \cup {pluralise(toLowerCase(name)) : name \in S},
     events |-> <<>>]

\* the state the model's operations run in: connect() has resolved and the
\* application holds the model it defined before connecting
Connected ==
    /\ leafstore = [_db |-> "IDBDatabase", _models |-> [name \in {"User"} |-> 1]]
    /\ models = <<LeafstoreModel("User", "userSchema", "IDBDatabase", "users")>>
    /\ idb = Database({"User"})

\* Model(name, schema) with a registry that is not looked up
ModelAnew(name, schema) ==
    /\ calls' = Append(calls, ModelCall(name, schema, Len(models) + 1))
    /\ models' = Append(models,
            LeafstoreModel(name, schema, leafstore._db,
                           pluralise(toLowerCase(name))))
    /\ leafstore' = [leafstore EXCEPT !._models =
            [n \in DOMAIN @ \cup {name} |->
                IF n = name THEN Len(models) + 1 ELSE @[n]]]
    /\ UNCHANGED idb

\* Model(name, schema), schema being a LeafstoreSchema
Model(name, schema) ==
    /\ Cardinality({c \in DOMAIN calls : calls[c].op = "Model"}) < MaxModelCalls
    /\ IF name = ""
       THEN /\ calls' = Append(calls, ModelCall(name, schema, 0))
            /\ UNCHANGED registry
       ELSE IF name \in DOMAIN leafstore._models
       THEN /\ calls' = Append(calls,
                    ModelCall(name, schema, leafstore._models[name]))
            /\ UNCHANGED registry
       ELSE ModelAnew(name, schema)
    /\ UNCHANGED <<store, snapshot, _deletedKeys, txs, timers, docs,
                   lastSettled, failures>>

\* connect(): window.indexedDB.open(this.dbName, 1).  A database that does
\* not exist yet is created: upgradeneeded fires before success.
connect ==
    /\ \A c \in DOMAIN calls : calls[c].op # "connect"
    /\ calls' = Append(calls, [op |-> "connect", status |-> "pending"])
    /\ idb' = [idb EXCEPT !.events =
                IF idb.version < 1 THEN <<"upgradeneeded", "success">>
                ELSE <<"success">>]
    /\ UNCHANGED <<store, snapshot, _deletedKeys, txs, timers, docs,
                   lastSettled, failures, leafstore, models>>

\* the promise of connect() settles
Connect(status) ==
    [c \in DOMAIN calls |->
        IF calls[c].op = "connect" THEN [calls[c] EXCEPT !.status = status]
        ELSE calls[c]]

\* request.onupgradeneeded: the "schemas" store gets the template of every
\* registered model, and every registered model gets its object store
onupgradeneeded ==
    /\ idb.events # <<>> /\ Head(idb.events) = "upgradeneeded"
    /\ leafstore' = [leafstore EXCEPT !._db = "IDBDatabase"]
    /\ idb' = [version |-> 1,
               schemas |-> [name \in DOMAIN leafstore._models |->
                                models[leafstore._models[name]]._schema],
               stores |-> {"schemas"} \cup
                          {models[leafstore._models[name]]._objectStoreName :
                              name \in DOMAIN leafstore._models},
               events |-> Tail(idb.events)]
    /\ UNCHANGED <<store, snapshot, _deletedKeys, calls, txs, timers, docs,
                   lastSettled, failures, models>>

\* request.onsuccess of the open request: this._db is set, the stored
\* schemas are requested, every registered model gets the handle, and the
\* promise resolves
onopensuccess ==
    /\ idb.events # <<>> /\ Head(idb.events) = "success"
    /\ leafstore' = [leafstore EXCEPT !._db = "IDBDatabase"]
    /\ idb' = [idb EXCEPT !.events = Tail(@) \o <<"schemaRequest.success">>]
    /\ models' = [m \in DOMAIN models |->
                    IF \E name \in DOMAIN leafstore._models :
                            leafstore._models[name] = m
                    THEN [models[m] EXCEPT !._db = "IDBDatabase"]
                    ELSE models[m]]
    /\ calls' = Connect("resolved")
    /\ UNCHANGED <<store, snapshot, _deletedKeys, txs, timers, docs,
                   lastSettled, failures>>

\* the stored schemas, in the order getAll() returns them
StoredSchemas == SelectSeq(NameOrder, LAMBDA name : name \in DOMAIN idb.schemas)

\* schemaRequest.onsuccess: for (let schema of schemas)
\*     this._models[schema.name] = new LeafstoreModel(schema.name, ..., { db })
Register(schemas) ==
    /\ models' = models \o
            [i \in 1 .. Len(schemas) |->
                LeafstoreModel(schemas[i], idb.schemas[schemas[i]],
                               leafstore._db, "")]
    /\ leafstore' = [leafstore EXCEPT !._models =
            [n \in DOMAIN @ \cup DOMAIN idb.schemas |->
                IF n \in DOMAIN idb.schemas
                THEN Len(models) + (CHOOSE i \in 1 .. Len(schemas) : schemas[i] = n)
                ELSE @[n]]]

\* the event of schemaRequest and its handler
onschemasuccess ==
    /\ idb.events # <<>> /\ Head(idb.events) = "schemaRequest.success"
    /\ Register(StoredSchemas)
    /\ idb' = [idb EXCEPT !.events = Tail(@)]
    /\ UNCHANGED <<store, snapshot, _deletedKeys, calls, txs, timers, docs,
                   lastSettled, failures>>

\* request.onerror of the open request: reject(request.error)
onopenerror ==
    /\ idb.events # <<>> /\ Head(idb.events) \in {"upgradeneeded", "success"}
    /\ failures < MaxFailures
    /\ failures' = failures + 1
    /\ idb' = [idb EXCEPT !.events = <<>>]
    /\ calls' = Connect("rejected")
    /\ UNCHANGED <<store, snapshot, _deletedKeys, txs, timers, docs,
                   lastSettled, leafstore, models>>

(***************************************************************************)
(* Initial states and inputs.  The object store outlives the page: it      *)
(* starts with any records earlier sessions left in it.                    *)
(***************************************************************************)
\* an object with the given name and age
Person(name, age) == ("name" :> Str(name)) @@ ("age" :> Num(age))

\* a stored record
Record(k, name, age) == ("_key" :> Key(k)) @@ Person(name, age)

\* the records under key k that pass the schema
ValidRecords(k) == {Record(k, "X", 20), Record(k, "X", 30), Record(k, "Y", 20)}

\* those, and a record written before the template declared minValue
LegacyRecords(k) == {Record(k, "X", 20), Record(k, "X", 30), Record(k, "X", 15)}

\* the stores holding, under some of the keys, one of the records R[k]
Stores(R) ==
    UNION {{st \in [S -> UNION {R[k] : k \in S}] : \A k \in S : st[k] \in R[k]} :
           S \in SUBSET Keys}

InitWith(stores) ==
    /\ store \in stores
    /\ snapshot = store
    /\ _deletedKeys = <<>>
    /\ calls = <<>>
    /\ txs = <<>>
    /\ timers = <<>>
    /\ docs = <<>>
    /\ lastSettled = 0
    /\ failures = 0
    /\ Connected

\* the queries of the specification's scenarios, and find-all
NameIsX == ObjQuery(<<Cond("name", "scalar", Str("X"))>>)
NameIsXOver25 ==
    ObjQuery(<<Cond("name", "scalar", Str("X")), Cond("age", "$gt", Num(25))>>)
EmptyQuery == ObjQuery(<<>>)
Queries == {AbsentQuery, EmptyQuery, NameIsX, NameIsXOver25}

(***************************************************************************)
(* Deleting and reading.                                                   *)
(***************************************************************************)
InitDelete == InitWith(Stores([k \in Keys |-> ValidRecords(k)]))

NextDelete ==
    \/ \E q \in Queries : deleteOne(q)
    \/ \E q \in Queries : deleteMany(q)
    \/ \E q \in Queries : find(q)
    \/ \E q \in Queries : findOne(q)
    \/ \E q \in Queries : count(q)
    \/ \E k \in Keys : findByKey(Key(k))
    \/ StoreRespond
    \/ StoreFail
    \/ TimerFire

SpecDelete == InitDelete /\ [][NextDelete]_vars

\* call f was made by the continuation of call d's promise, right after it
\* resolved and before any other call or task
RightAfter(d, f) ==
    /\ d \in DOMAIN calls /\ f \in DOMAIN calls
    /\ calls[d].status = "resolved"
    /\ calls[f].after = d

\* the keys of the records a read call resolved with
Returned(f) == KeysOf(calls[f].result.docs)

\* C1: after deleteOne(query) has resolved having matched a record r, a
\* find(query) made right afterwards does not return r, whether or not the
\* store has removed r by then.
C1_FindAfterDeleteOne ==
    \A d \in DOMAIN calls : \A f \in DOMAIN calls :
        ( /\ RightAfter(d, f)
          /\ calls[d].op = "deleteOne"
          /\ calls[f].op = "find"
          /\ calls[f].query = calls[d].query
          /\ calls[f].status = "resolved" )
        => calls[d].targets \cap Returned(f) = {}

\* C2: after deleteMany(query) has resolved, a find, findOne or count made
\* right afterwards returns none of the records query matched, also while
\* their deletions are still in flight; find({}) after a deleteMany that
\* matched every record returns the empty sequence.
C2_ReadAfterDeleteMany ==
    \A d \in DOMAIN calls : \A f \in DOMAIN calls :
        ( /\ RightAfter(d, f)
          /\ calls[d].op = "deleteMany"
          /\ calls[f].op \in {"find", "findOne", "count"}
          /\ calls[f].status = "resolved" )
        => calls[d].targets \cap Returned(f) = {}

(***************************************************************************)
(* Writing: create and insertOne.                                          *)
(***************************************************************************)
\* objects to write: valid ones without and with a key of their own, and
\* one that fails minValue
WriteObjects ==
    {Person("X", 20), Person("Y", 30), Person("X", 15)}
        \cup {Put(Person("Y", 30), "_key", Key(k)) : k \in Keys}

\* the key argument of insertOne: absent, or a key
KeyArgs == {Undefined} \cup {Key(k) : k \in Keys}

InitWrite == InitWith(Stores([k \in Keys |-> ValidRecords(k)]))

NextWrite ==
    \/ \E o \in WriteObjects : create(o)
    \/ \E o \in WriteObjects : \E k \in KeyArgs : insertOne(o, k)
    \/ StoreRespond
    \/ StoreFail

SpecWrite == InitWrite /\ [][NextWrite]_vars

\* no request is outstanding
Quiet == txs = <<>> /\ timers = <<>>

\* the record stored under key holds the values of object
Holds(key, object) ==
    /\ key.n \in DOMAIN store
    /\ \A f \in DOMAIN _schema \ {"_key"} : store[key.n][f] = Get(object, f)

\* C4: insertOne(record, k) called twice with the same key k, with any two
\* valid records, leaves one record stored under k, holding the second
\* call's values, and neither call rejects (the store failing no request).
C4_InsertOneTwice ==
    ( /\ Len(calls) = 2
      /\ calls[1].op = "insertOne" /\ calls[2].op = "insertOne"
      /\ ValidKey(calls[1].key) /\ calls[2].key = calls[1].key
      /\ validate(calls[1].object) /\ validate(calls[2].object)
      /\ failures = 0
      /\ Quiet )
    => /\ calls[1].status = "resolved" /\ calls[2].status = "resolved"
       /\ Holds(calls[2].key, calls[2].object)

\* this step is the store's answer to the write request of call c, which
\* settles the call's promise
Answering(c, op) ==
    /\ txs # <<>>
    /\ Head(txs).call = c
    /\ calls[c].op = op
    /\ calls[c].status = "pending"
    /\ calls'[c].status # "pending"

\* the key the caller supplied with the record of call c is stored
SuppliedKeyExists(c) ==
    /\ ValidKey(Get(calls[c].object, "_key"))
    /\ Get(calls[c].object, "_key").n \in DOMAIN store

\* C5: create rejects, leaving the stored record untouched, whenever the
\* key supplied with the record (or the generated key) already exists;
\* insertOne with such a key does not reject for that reason.
C5_CreateRejectsExistingKey ==
    [][\A c \in DOMAIN calls :
        /\ ( /\ Answering(c, "create")
             /\ SuppliedKeyExists(c) \/ calls[c].gen \in DOMAIN store )
           => calls'[c].status = "rejected" /\ store' = store
        /\ ( /\ Answering(c, "insertOne")
             /\ SuppliedKeyExists(c)
             /\ failures' = failures )
           => calls'[c].status = "resolved"]_vars

\* C6: create(record) generates a key only when the record carries none;
\* a record that supplies a key is stored under it, and the Document
\* returned reports that key.
C6_CreateKeepsSuppliedKey ==
    \A c \in DOMAIN calls :
        ( /\ calls[c].op = "create"
          /\ calls[c].status = "resolved"
          /\ ValidKey(Get(calls[c].object, "_key")) )
        => Get(calls[c].result.docs[1], "_key") = calls[c].object["_key"]

\* C7: insertOne(record, key) generates a key only if neither the key
\* argument nor the record's own key is present; with a key argument and no
\* own key the call succeeds (the store failing no request) and the record
\* is stored under the key argument.
C7_InsertOneKeyArgument ==
    \A c \in DOMAIN calls :
        calls[c].op = "insertOne" =>
            /\ calls[c].gen # 0 =>
                    Falsy(calls[c].key) /\ Falsy(Get(calls[c].object, "_key"))
            /\ ( /\ ValidKey(calls[c].key)
                 /\ Falsy(Get(calls[c].object, "_key"))
                 /\ validate(calls[c].object)
                 /\ failures = 0 )
               => /\ calls[c].status # "rejected"
                  /\ calls[c].status = "resolved" =>
                        Get(calls[c].result.docs[1], "_key") = calls[c].key

(***************************************************************************)
(* Updating: findByKeyAndUpdate, updateOne, updateMany.                    *)
(***************************************************************************)
\* update objects: one field, a value that fails minValue, and objects
\* that carry a _key of their own
Patches ==
    {"name" :> Str("Y"), "age" :> Num(15)}
        \cup {("name" :> Str("Y")) @@ ("_key" :> Key(k)) : k \in Keys}

\* the queries of the update calls
UpdateQueries == {AbsentQuery, EmptyQuery, NameIsX}

\* the objects create and insertOne are given along with the updates
UpdateObjects == {Person("X", 15), Person("Y", 30)}

UpdateOps == {"findByKeyAndUpdate", "updateOne", "updateMany"}

\* Validation with every writing method.  The store may hold a record
\* written before the template declared minValue.
InitValidate == InitWith(Stores([k \in Keys |-> LegacyRecords(k)]))

NextValidate ==
    \/ \E o \in UpdateObjects : create(o)
    \/ \E o \in UpdateObjects : insertOne(o, Undefined)
    \/ \E k \in Keys : \E o \in Patches : findByKeyAndUpdate(Key(k), o)
    \/ \E q \in UpdateQueries : \E o \in Patches : updateOne(q, o)
    \/ \E q \in UpdateQueries : \E o \in Patches : updateMany(q, o)
    \/ StoreRespond
    \/ StoreFail

SpecValidate == InitValidate /\ [][NextValidate]_vars

\* the assignments the caller makes to a document: document[key] = value
Assignments == {<<"_key", Key(MaxKey)>>, <<"name", Str("Z")>>}

\* the update objects given here: one field each, and one that carries a
\* _key of its own
MergePatches ==
    {"name" :> Str("Y"), "age" :> Num(30),
     ("name" :> Str("Y")) @@ ("_key" :> Key(MaxKey))}

MergeQueries == {EmptyQuery, NameIsX}

\* Updates and assignments to the documents they hand over.
InitUpdate == InitWith(Stores([k \in Keys |-> ValidRecords(k)]))

NextUpdate ==
    \/ \E k \in Keys : \E o \in MergePatches : findByKeyAndUpdate(Key(k), o)
    \/ \E q \in MergeQueries : \E o \in MergePatches : updateOne(q, o)
    \/ \E q \in MergeQueries : \E o \in MergePatches : updateMany(q, o)
    \/ \E d \in DOMAIN docs : \E a \in Assignments : DocSet(d, a[1], a[2])
    \/ StoreRespond
    \/ StoreFail

SpecUpdate == InitUpdate /\ [][NextUpdate]_vars

\* validate has just thrown for a record of call c in this step
FailsValidation(c) ==
    /\ c \in DOMAIN calls'
    /\ calls'[c].vfail
    /\ c \in DOMAIN calls => ~calls[c].vfail

\* C8: for create, insertOne, findByKeyAndUpdate, updateOne and updateMany,
\* when validation fails for a record the call would write, the call has
\* issued no add / put and the store content is unchanged; for updateMany
\* also when only a later matched record's merged value is invalid.
C8_ValidationBeforeMutation ==
    [][\A c \in DOMAIN calls' :
        FailsValidation(c) => calls'[c].writes = 0 /\ store' = store]_vars

\* the transaction of call c ends in this step
Finishing(c) ==
    /\ txs # <<>>
    /\ Head(txs).call = c
    /\ \A i \in DOMAIN txs' : txs'[i].call # c

\* the record original overlaid with patch: a declared field named in patch
\* holds the patch value, every other field keeps its value
Overlay(original, patch) ==
    [f \in DOMAIN original |->
        IF f # "_key" /\ f \in DOMAIN patch THEN patch[f] ELSE original[f]]

\* C9: once findByKeyAndUpdate, updateOne or updateMany has succeeded and
\* its transaction is over, each targeted record's stored value is the
\* original record overlaid with the patch, and every other record is as it
\* was before the call.
C9_UpdateStoresMerge ==
    [][\A c \in DOMAIN calls :
        ( /\ Finishing(c)
          /\ calls[c].op \in UpdateOps
          /\ calls'[c].status = "resolved" )
        => /\ DOMAIN store' = DOMAIN snapshot
           /\ \A k \in DOMAIN snapshot :
                store'[k] = IF Key(k) \in calls'[c].targets
                            THEN Overlay(snapshot[k], calls[c].object)
                            ELSE snapshot[k]]_vars

\* this step is an event of a request of an update call
Updating == txs # <<>> /\ Head(txs).call # 0
                /\ calls[Head(txs).call].op \in UpdateOps

\* C10: no findByKeyAndUpdate, updateOne or updateMany, also with a _key in
\* its update object, changes the set of primary keys of the store or the
\* key a record is stored under, and no assignment to a document changes
\* the _key of the object it wraps.
C10_PrimaryKeyImmutable ==
    [][/\ Updating =>
            /\ DOMAIN store' = DOMAIN store
            /\ \A k \in DOMAIN store' : store'[k]["_key"] = Key(k)
       /\ \A d \in DOMAIN docs :
            Get(docs'[d]._object, "_key") = Get(docs[d]._object, "_key")]_vars

\* an update whose object carries another key than its target's has been
\* written, and an assignment to a document's _key was refused
C10_Witness ==
    /\ \E c \in DOMAIN calls :
        /\ calls[c].op \in UpdateOps
        /\ calls[c].status = "resolved"
        /\ calls[c].writes > 0
        /\ \A i \in DOMAIN txs : txs[i].call # c
        /\ ValidKey(Get(calls[c].object, "_key"))
        /\ \E t \in calls[c].targets : t # calls[c].object["_key"]
        /\ \A t \in calls[c].targets :
                t.n \in DOMAIN store /\ store[t.n]["name"] = calls[c].object["name"]
    /\ failures = 0
    /\ \E d \in DOMAIN docs :
        docs[d].refused /\ ValidKey(Get(docs[d]._object, "_key"))

(***************************************************************************)
(* Reading: find, findOne, count.  No call writes, so that the store keeps *)
(* its initial content and every call reads the same state.                *)
(***************************************************************************)
\* queries on one field and on several, with every comparison operator
NameEqY == ObjQuery(<<Cond("name", "$eq", Str("Y"))>>)
AgeIn == ObjQuery(<<Cond("age", "$in", <<Num(20), Num(15)>>)>>)
AgeNin == ObjQuery(<<Cond("age", "$nin", <<Num(20)>>)>>)
AgeFrom20Below30 ==
    ObjQuery(<<Cond("age", "$gte", Num(20)), Cond("age", "$lt", Num(30))>>)
AgeNot20UpTo30 ==
    ObjQuery(<<Cond("age", "$ne", Num(20)), Cond("age", "$lte", Num(30))>>)

\* a query on a field no record has
EmailIsA == ObjQuery(<<Cond("email", "scalar", Str("a"))>>)

\* queries with an operator that is not supported: alone, after another
\* operator of the same field, and on a field no record has
AgeFoo == ObjQuery(<<Cond("age", "$foo", Num(1))>>)
AgeOver25Foo ==
    ObjQuery(<<Cond("age", "$gt", Num(25)), Cond("age", "$foo", Num(1))>>)
EmailFoo == ObjQuery(<<Cond("email", "$foo", Num(1))>>)

RecognizedQueries ==
    {EmptyQuery, NameIsX, NameIsXOver25, NameEqY, AgeIn, AgeNin,
     AgeFrom20Below30, AgeNot20UpTo30, EmailIsA}

UnsupportedQueries == {AgeFoo, AgeOver25Foo, EmailFoo}

KeyQueries == {KeyQuery(k) : k \in Keys}

ReadQueries ==
    {AbsentQuery} \cup RecognizedQueries \cup UnsupportedQueries \cup KeyQueries

InitQuery == InitWith(Stores([k \in Keys |-> ValidRecords(k)]))

NextQuery ==
    \/ \E q \in ReadQueries : find(q)
    \/ \E q \in ReadQueries : findOne(q)
    \/ \E q \in ReadQueries : count(q)
    \/ StoreRespond
    \/ StoreFail

SpecQuery == InitQuery /\ [][NextQuery]_vars

\* the store has answered every request of call c
Answered(c) == \A i \in DOMAIN txs : txs[i].call # c

\* query has an operator key outside the supported ones
HasUnsupported(query) ==
    \E i \in 1 .. Len(query.conds) :
        query.conds[i].op \notin supportedOperators \cup {"scalar"}

\* C15: a call whose query contains an operator key outside $eq, $gt, $gte,
\* $lt, $lte, $in, $nin, $ne, $regex fails with an unsupported-operator
\* error, whatever the store holds: once the store has answered it, its
\* promise is rejected, never resolved with a partial or empty result.
C15_UnsupportedOperatorFails ==
    \A c \in DOMAIN calls :
        ( /\ calls[c].op \in {"find", "findOne", "count"}
          /\ HasUnsupported(calls[c].query)
          /\ Answered(c)
          /\ failures = 0 )
        => calls[c].status = "rejected"

\* one predicate of a query on the value a of a record, b being its operand
Predicate(op, a, b) ==
    CASE op \in {"scalar", "$eq"} -> a = b
      [] op = "$ne" -> a # b
      [] op = "$gt" -> a.n > b.n
      [] op = "$gte" -> a.n >= b.n
      [] op = "$lt" -> a.n < b.n
      [] op = "$lte" -> a.n <= b.n
      [] op = "$in" -> \E i \in 1 .. Len(b) : b[i] = a
      [] op = "$nin" -> \A i \in 1 .. Len(b) : b[i] # a

\* the record owns every queried field and every predicate on it holds
Satisfies(record, query) ==
    \A i \in 1 .. Len(query.conds) :
        /\ query.conds[i].field \in DOMAIN record
        /\ Predicate(query.conds[i].op, record[query.conds[i].field],
                     query.conds[i].val)

\* the records a call resolved with, as a set
ReturnedRecords(c) ==
    {calls[c].result.docs[i] : i \in 1 .. Len(calls[c].result.docs)}

Visible ==
    SelectSeq([j \in 1 .. Cardinality(DOMAIN store) |->
                store[CHOOSE k \in DOMAIN store :
                        Cardinality({l \in DOMAIN store : l <= k}) = j]],
              LAMBDA r : \A i \in 1 .. Len(_deletedKeys) :
                            _deletedKeys[i] # r["_key"])

\* C17: find with an absent query or with the empty query {} returns every
\* record of the collection that is not pending-deleted, in the store's
\* enumeration order.
C17_FindAll ==
    \A c \in DOMAIN calls :
        ( /\ calls[c].op = "find"
          /\ calls[c].query \in {AbsentQuery, EmptyQuery}
          /\ Answered(c)
          /\ failures = 0 )
        => /\ calls[c].status = "resolved"
           /\ calls[c].result.docs = Visible

\* find() and find({}) have both returned the two records of the store
C17_Witness ==
    /\ Len(calls) = 2
    /\ calls[1].op = "find" /\ calls[1].query = AbsentQuery
    /\ calls[2].op = "find" /\ calls[2].query = EmptyQuery
    /\ calls[1].status = "resolved" /\ calls[2].status = "resolved"
    /\ Len(calls[1].result.docs) = 2
    /\ calls[2].result.docs = <<store[1], store[2]>>

\* what find(query) resolves with in the current state, the store
\* answering its request
FindNow(query) == OnFindGetAll(Call("find", query, EmptyObject, Undefined),
                               getAll(store, IdbQuery(query)))

\* C18: findOne(query) resolves to a Document wrapping the first element of
\* the sequence find(query) returns on the same state, and to not-found
\* exactly when that sequence is empty, for an absent, an empty and a
\* field-predicate query.
C18_FindOneIsFirstOfFind ==
    \A c \in DOMAIN calls :
        ( /\ calls[c].op = "findOne"
          /\ calls[c].query \in {AbsentQuery} \cup RecognizedQueries
          /\ Answered(c)
          /\ failures = 0 )
        => /\ calls[c].status = "resolved"
           /\ IF FindNow(calls[c].query).result.docs = <<>>
              THEN calls[c].result.kind = "null"
              ELSE /\ calls[c].result.kind = "document"
                   /\ calls[c].result.docs =
                        <<FindNow(calls[c].query).result.docs[1]>>

\* C19: count(query) equals the length of the sequence find(query) returns
\* on the same state, for every store content and query.
C19_CountIsLengthOfFind ==
    \A c \in DOMAIN calls :
        ( /\ calls[c].op = "count"
          /\ Answered(c)
          /\ failures = 0 )
        => IF FindNow(calls[c].query).status = "resolved"
           THEN /\ calls[c].status = "resolved"
                /\ calls[c].result.kind = "number"
                /\ Len(calls[c].result.docs) =
                        Len(FindNow(calls[c].query).result.docs)
           ELSE calls[c].status # "resolved"

\* count has counted one of two records, and all of two records
C19_Witness ==
    /\ Len(calls) = 2
    /\ calls[1].op = "count" /\ calls[1].query = NameIsXOver25
    /\ calls[2].op = "count" /\ calls[2].query = AbsentQuery
    /\ calls[1].status = "resolved" /\ Len(calls[1].result.docs) = 1
    /\ calls[2].status = "resolved" /\ Len(calls[2].result.docs) = 2
    /\ Len(FindNow(NameIsX).result.docs) = 2

\* C20: with a bare primary key k as the query, find(k), findOne(k) and
\* count(k) return the record stored under k (a one-element sequence, that
\* record, and 1), and the empty result when no record is stored under k.
C20_BareKeyQuery ==
    \A c \in DOMAIN calls :
        ( /\ calls[c].op \in {"find", "findOne", "count"}
          /\ calls[c].query \in KeyQueries
          /\ Answered(c)
          /\ failures = 0 )
        => /\ calls[c].status = "resolved"
           /\ calls[c].result.docs = get(store, calls[c].query.key)
           /\ calls[c].op = "findOne" =>
                calls[c].result.kind =
                    (IF calls[c].query.key.n \in DOMAIN store
                     THEN "document" ELSE "null")

(***************************************************************************)
(* Updates that find no record.                                            *)
(***************************************************************************)
\* this step is an event of the first request of the oldest transaction
RequestEvent ==
    /\ txs # <<>>
    /\ txs' # txs
    /\ Len(calls') = Len(calls)
    /\ Len(timers') >= Len(timers)

\* this step is the store's answer to the read request of call c
AnsweringRead(c) ==
    /\ RequestEvent
    /\ Head(txs).call = c
    /\ Head(Head(txs).reqs).type \in {"get", "getAll"}
    /\ failures' = failures

\* no record of the store matches the query: none at all for an absent
\* query, none that satisfies a field-predicate query
NoneMatches(query) ==
    IF query.kind = "absent" THEN DOMAIN store = {}
    ELSE \A k \in DOMAIN store : ~Satisfies(store[k], query)

\* C11: updateOne(query, patch) rejects with a not-found error and leaves
\* the store unchanged whenever no record matches query, also for an absent
\* query on an empty collection; findByKeyAndUpdate(key, patch) does the
\* same whenever no record is stored under key.
C11_UpdateNotFound ==
    [][\A c \in DOMAIN calls :
        ( /\ AnsweringRead(c)
          /\ \/ calls[c].op = "updateOne" /\ NoneMatches(calls[c].query)
             \/ /\ calls[c].op = "findByKeyAndUpdate"
                /\ calls[c].key.n \notin DOMAIN store )
        => /\ calls'[c].status = "rejected"
           /\ calls'[c].error = "NotFound"
           /\ store' = store]_vars

(***************************************************************************)
(* Settlement.  The store answers every request and the event loop runs    *)
(* every timer callback: both are weakly fair.  No request fails.          *)
(***************************************************************************)
\* the update object of the calls made here
SetNameY == "name" :> Str("Y")

NextSettle ==
    \/ create(Person("Y", 30))
    \/ \E q \in {AbsentQuery, AgeFoo} : find(q)
    \/ updateOne(AbsentQuery, SetNameY)
    \/ updateMany(NameIsX, SetNameY)
    \/ deleteMany(NameIsX)
    \/ StoreRespond
    \/ TimerFire

SpecSettle ==
    /\ InitWith(Stores([k \in Keys |-> ValidRecords(k)]))
    /\ [][NextSettle]_vars
    /\ WF_vars(StoreRespond)
    /\ WF_vars(TimerFire)

\* C12: every call's promise eventually settles, the store answering every
\* request, for every query, update object and store content.
C12_EveryPromiseSettles ==
    \A c \in 1 .. MaxCalls :
        [](c \in DOMAIN calls
            => <>(c \in DOMAIN calls /\ calls[c].status # "pending"))

(***************************************************************************)
(* Removing: findByKeyAndDelete, deleteOne, deleteMany, deleteAll.         *)
(***************************************************************************)
DeleteOps == {"findByKeyAndDelete", "deleteOne", "deleteMany"}

InitRemove == InitWith(Stores([k \in Keys |-> ValidRecords(k)]))

NextRemove ==
    \/ \E k \in Keys : findByKeyAndDelete(Key(k))
    \/ \E q \in Queries : deleteOne(q)
    \/ \E q \in Queries : deleteMany(q)
    \/ deleteAll
    \/ StoreRespond
    \/ StoreFail
    \/ TimerFire

SpecRemove == InitRemove /\ [][NextRemove]_vars

\* this step is the event of a delete request
DeleteEvent ==
    /\ RequestEvent
    /\ Head(Head(txs).reqs).type = "delete"

\* C13: deleteOne, deleteMany and findByKeyAndDelete resolve once their
\* target keys are identified and scheduled, without waiting for the store
\* to confirm the removal: when the store answers a delete request the
\* call it was made for has resolved already, and a failure of the delete
\* request rejects no delete call.
C13_DeleteResolvesBeforeRemoval ==
    [][DeleteEvent =>
        \A c \in DOMAIN calls :
            calls[c].op \in DeleteOps =>
                /\ Head(txs).call = c => calls[c].status = "resolved"
                /\ calls[c].status # "rejected" => calls'[c].status # "rejected"]_vars

\* the keys of the records query matches, every record for an absent query
Matching(query) ==
    {k \in DOMAIN store : query.kind = "absent" \/ Satisfies(store[k], query)}

\* the first of the keys S in enumeration order, if any
FirstOf(S) == {k \in S : \A l \in S : k <= l}

\* the targets of a delete call: the first matching record for deleteOne,
\* every matching record for deleteMany
Targets(op, query) ==
    {Key(k) : k \in IF op = "deleteOne" THEN FirstOf(Matching(query))
                    ELSE Matching(query)}

\* C14: once the store has processed every request made for a deleteOne or
\* deleteMany call, the store holds what it held minus exactly the targets:
\* the call schedules exactly the targets (for deleteOne the first matching
\* record, the first record when no query is given; for deleteMany every
\* matching record), and each scheduled removal takes that record out and
\* leaves every other record unchanged.
C14_DeleteRemovesTargets ==
    [][/\ \A c \in DOMAIN calls :
            ( AnsweringRead(c) /\ calls[c].op \in {"deleteOne", "deleteMany"} )
            => /\ calls'[c].status = "resolved"
               /\ calls'[c].targets = Targets(calls[c].op, calls[c].query)
               /\ Len(txs') - Len(txs) + 1 + Len(timers') - Len(timers)
                    = Cardinality(calls'[c].targets)
       /\ ( DeleteEvent /\ failures' = failures )
            => store' = StoreDelete(store, Head(Head(txs).reqs).key)]_vars

(***************************************************************************)
(* LeafstoreSchema over any template.  The objects of this part keep the   *)
(* order of their properties (for ... in walks them in that order): an     *)
(* object is the sequence of its entries.  A template is such an object;   *)
(* so are the compiled schema and the records handed to validate and cast. *)
(* The array literals of the templates wrap a mapping, as the element      *)
(* templates of the specification do.                                      *)
(***************************************************************************)
Bool(b) == [type |-> "boolean", n |-> IF b THEN 1 ELSE 0, s |-> ""]
Entry(k, v) == [k |-> k, v |-> v]
Obj(entries) == [type |-> "object", n |-> 0, s |-> "", entries |-> entries]
Arr(items) == [type |-> "array", n |-> 0, s |-> "", items |-> items]

\* an array of validator functions, each with the option value it closes over
ValidatorList(list) == [type |-> "validators", n |-> 0, s |-> "", list |-> list]

\* value === undefined || value === null
Nullish(value) == value.type = "undefined"

\* value === s
IsString(value, s) == value.type = "string" /\ value.s = s

\* object.hasOwnProperty(key)
HasOwn(object, key) ==
    /\ object.type = "object"
    /\ \E i \in 1 .. Len(object.entries) : object.entries[i].k = key

\* object[key] of a value that is not nullish
Prop(object, key) ==
    IF HasOwn(object, key)
    THEN object.entries[CHOOSE i \in 1 .. Len(object.entries) :
                            object.entries[i].k = key].v
    ELSE Undefined

\* object[key] = value: an existing property keeps its place
SetProp(object, key, value) ==
    IF HasOwn(object, key)
    THEN Obj([i \in 1 .. Len(object.entries) |->
                IF object.entries[i].k = key THEN Entry(key, value)
                ELSE object.entries[i]])
    ELSE Obj(Append(object.entries, Entry(key, value)))

\* array[0]
First(array) ==
    IF array.type = "array" /\ Len(array.items) >= 1 THEN array.items[1]
    ELSE Undefined

\* array[1]
Second(array) ==
    IF array.type = "array" /\ Len(array.items) >= 2 THEN array.items[2]
    ELSE Undefined

\* the entries for (let key in object) walks: none for undefined, null, a
\* number or a boolean
ForIn(object) == IF object.type = "object" THEN object.entries ELSE <<>>

\* the length of the strings of this part
StrLen(s) ==
    CASE s = "" -> 0
      [] s = "a" -> 1
      [] s = "ab" -> 2
      [] s = "abc" -> 3
      [] OTHER -> 4

\* value?.length
LengthOf(value) ==
    CASE value.type = "string" -> Num(StrLen(value.s))
      [] value.type = "array" -> Num(Len(value.items))
      [] value.type = "object" -> Prop(value, "length")
      [] OTHER -> Undefined

\* Number(value) is NaN: undefined, a non-numeric string (every non-empty
\* string of the model), an object, and an array that is not empty (the
\* non-empty arrays of the model have an element that is not numeric)
IsNaN(value) ==
    \/ value.type \in {"undefined", "object", "validators"}
    \/ value.type = "string" /\ value.s # ""
    \/ value.type = "array" /\ Len(value.items) # 0

\* Number(value) when it is not NaN
ToNumber(value) == IF value.type \in {"number", "boolean"} THEN value.n ELSE 0

\* a < b, the operands not being two strings
LessThan(a, b) == ~IsNaN(a) /\ ~IsNaN(b) /\ ToNumber(a) < ToNumber(b)

\* what a call that may throw gives: the value it returns or the error it
\* throws, an error being its message: the message's fixed text, the field
\* name and the threshold put into it
Return(value) ==
    [threw |-> FALSE, value |-> value,
     error |-> [text |-> "", name |-> "", arg |-> 0]]
Error(text, name, arg) ==
    [threw |-> TRUE, value |-> Undefined,
     error |-> [text |-> text, name |-> name, arg |-> arg]]
TypeError == Error("TypeError", "", 0)

\* const requiredValidator = (value) => { ... }
requiredValidator(required, name, value) ==
    IF ~Falsy(required) /\ Falsy(value) THEN Error("is required", name, 0)
    ELSE Return(Bool(TRUE))

\* the four threshold validators differ in their texts, in what they compare
\* (the value or its length) and in the direction of the comparison
Invalid(kind) ==
    CASE kind = "minLength" -> "Invalid minLength value for"
      [] kind = "maxLength" -> "Invalid maxLength value for"
      [] kind = "minValue" -> "Invalid minValue value for"
      [] kind = "maxValue" -> "Invalid maxValue value for"

DefaultMessage(kind) ==
    CASE kind = "minLength" -> "length must be at least"
      [] kind = "maxLength" -> "Length must be at most"
      [] kind = "minValue" -> "must be at least"
      [] kind = "maxValue" -> "must be at most"

\* value?.length < minLength, value?.length > maxLength, value < minValue,
\* value > maxValue: the option itself is the operand, also when it is the
\* 2-element array
Violates(kind, option, value) ==
    CASE kind = "minLength" -> LessThan(LengthOf(value), option)
      [] kind = "maxLength" -> LessThan(option, LengthOf(value))
      [] kind = "minValue" -> LessThan(value, option)
      [] kind = "maxValue" -> LessThan(option, value)

\* minLengthValidator, maxLengthValidator, minValueValidator and
\* maxValueValidator
thresholdValidator(kind, option, name, value) ==
    IF option.type = "array"
    THEN IF First(option).type # "number" THEN Error(Invalid(kind), name, 0)
         ELSE IF Violates(kind, option, value)
              THEN IF Second(option).type = "string"
                   THEN Error(Second(option).s, "", 0)
                   ELSE Error(DefaultMessage(kind), name, First(option).n)
              ELSE Return(Bool(TRUE))
    ELSE IF option.type # "number" THEN Error(Invalid(kind), name, 0)
         ELSE IF Violates(kind, option, value)
              THEN Error(DefaultMessage(kind), name, option.n)
              ELSE Return(Bool(TRUE))

\* validator(value)
Validator(kind, option, name) == [kind |-> kind, option |-> option, name |-> name]

RunValidator(validator, value) ==
    IF validator.kind = "required"
    THEN requiredValidator(validator.option, validator.name, value)
    ELSE thresholdValidator(validator.kind, validator.option, validator.name,
                            value)

\* if (minLength && typeof minLength === "number") validators.push(...)
Pushed(kind, fieldProps, name) ==
    IF /\ ~Falsy(Prop(fieldProps, kind))
       /\ Prop(fieldProps, kind).type = "number"
    THEN <<Validator(kind, Prop(fieldProps, kind), name)>>
    ELSE <<>>

\* #validators(fieldProps, name)
validators(fieldProps, name) ==
    (IF ~Falsy(Prop(fieldProps, "required"))
     THEN <<Validator("required", Prop(fieldProps, "required"), name)>>
     ELSE <<>>)
    \o Pushed("minLength", fieldProps, name)
    \o Pushed("maxLength", fieldProps, name)
    \o Pushed("minValue", fieldProps, name)
    \o Pushed("maxValue", fieldProps, name)

RECURSIVE generateSchema(_, _), GenerateFrom(_, _, _, _)

\* the for loop of #generateSchema from the i-th property of object on,
\* schema being what the loop has built so far; name is "" for the root
GenerateFrom(object, name, i, schema) ==
    IF i > Len(ForIn(object)) THEN schema
    ELSE GenerateFrom(object, name, i + 1,
            IF ForIn(object)[i].k = "type"
            THEN Obj(<<Entry("_type", ForIn(object)[i].v),
                       Entry("_validators",
                             ValidatorList(validators(object, name))),
                       Entry("_unique", Prop(object, "unique"))>>)
            ELSE IF ForIn(object)[i].v.type = "string"
            THEN SetProp(schema, ForIn(object)[i].k,
                    Obj(<<Entry("_type", ForIn(object)[i].v),
                          Entry("_validators", ValidatorList(<<>>))>>))
            ELSE IF ForIn(object)[i].v.type = "array"
            THEN SetProp(schema, ForIn(object)[i].k,
                    Obj(<<Entry("_type", Str("array")),
                          Entry("_schema",
                                generateSchema(First(ForIn(object)[i].v),
                                               ForIn(object)[i].k))>>))
            ELSE IF ForIn(object)[i].v.type = "object"
            THEN SetProp(schema, ForIn(object)[i].k,
                    generateSchema(ForIn(object)[i].v, ForIn(object)[i].k))
            ELSE schema)

\* #generateSchema(object, name)
generateSchema(object, name) ==
    GenerateFrom(object, name, 1,
        IF name = ""
        THEN Obj(<<Entry("_key",
                    Obj(<<Entry("_type", Str("string")),
                          Entry("_validators", ValidatorList(<<>>))>>))>>)
        ELSE Obj(<<>>))

RECURSIVE RunValidators(_, _, _)

\* validators.forEach((validator) => validator(value)), from the i-th on
RunValidators(list, value, i) ==
    IF i > Len(list) THEN Return(Undefined)
    ELSE IF RunValidator(list[i], value).threw
         THEN RunValidator(list[i], value)
         ELSE RunValidators(list, value, i + 1)

RECURSIVE validateObject(_, _), ValidateFrom(_, _, _), ValidateItems(_, _, _)

\* the body of #validateObject's loop for one property of the schema; a
\* property of undefined or null cannot be read
ValidateField(object, key, fieldProps) ==
    IF Nullish(fieldProps) THEN TypeError
    ELSE IF IsString(Prop(fieldProps, "_type"), "array")
    THEN IF Nullish(object) THEN TypeError
         ELSE IF Falsy(Prop(object, key)) THEN Return(Undefined)
         ELSE IF Prop(object, key).type = "array"
         THEN ValidateItems(Prop(object, key).items,
                            Prop(fieldProps, "_schema"), 1)
         ELSE Error("must be an array", key, 0)
    ELSE IF IsString(Prop(fieldProps, "_type"), "object")
    THEN IF Nullish(object) THEN TypeError
         ELSE validateObject(Prop(object, key), fieldProps)
    ELSE IF Prop(fieldProps, "_validators").type = "validators"
    THEN IF Len(Prop(fieldProps, "_validators").list) = 0
         THEN Return(Undefined)
         ELSE IF Nullish(object) THEN TypeError
         ELSE RunValidators(Prop(fieldProps, "_validators").list,
                            Prop(object, key), 1)
    ELSE Return(Undefined)

\* object[key].forEach((item) => this.#validateObject(item, schema))
ValidateItems(items, schema, i) ==
    IF i > Len(items) THEN Return(Undefined)
    ELSE IF validateObject(items[i], schema).threw
         THEN validateObject(items[i], schema)
         ELSE ValidateItems(items, schema, i + 1)

\* #validateObject's loop from the i-th property of the schema on
ValidateFrom(object, schema, i) ==
    IF i > Len(ForIn(schema)) THEN Return(Undefined)
    ELSE IF ValidateField(object, ForIn(schema)[i].k, ForIn(schema)[i].v).threw
         THEN ValidateField(object, ForIn(schema)[i].k, ForIn(schema)[i].v)
         ELSE ValidateFrom(object, schema, i + 1)

\* #validateObject(object, schema): what validate gives
validateObject(object, schema) == ValidateFrom(object, schema, 1)

RECURSIVE castObject(_, _), CastFrom(_, _, _, _), CastItems(_, _, _, _)

\* the body of #cast's loop for one property of the schema: the value that
\* result[key] gets
CastField(object, key, fieldProps) ==
    IF Nullish(fieldProps) THEN TypeError
    ELSE IF IsString(Prop(fieldProps, "_type"), "array")
    THEN IF Nullish(object) THEN TypeError
         ELSE IF Falsy(Prop(object, key)) THEN Return(Arr(<<>>))
         ELSE IF Prop(object, key).type = "array"
         THEN CastItems(Prop(object, key).items,
                        Prop(fieldProps, "_schema"), 1, <<>>)
         ELSE Error("must be an array", key, 0)
    ELSE IF IsString(Prop(fieldProps, "_type"), "object")
    THEN IF Nullish(object) THEN TypeError
         ELSE castObject(Prop(object, key), fieldProps)
    ELSE IF Nullish(object) THEN TypeError
    ELSE Return(Prop(object, key))

\* object[key].map((item) => this.#cast(item, schema))
CastItems(items, schema, i, result) ==
    IF i > Len(items) THEN Return(Arr(result))
    ELSE IF castObject(items[i], schema).threw
         THEN castObject(items[i], schema)
         ELSE CastItems(items, schema, i + 1,
                        Append(result, castObject(items[i], schema).value))

\* #cast's loop from the i-th property of the schema on
CastFrom(object, schema, i, result) ==
    IF i > Len(ForIn(schema)) THEN Return(result)
    ELSE IF CastField(object, ForIn(schema)[i].k, ForIn(schema)[i].v).threw
         THEN CastField(object, ForIn(schema)[i].k, ForIn(schema)[i].v)
         ELSE CastFrom(object, schema, i + 1,
                SetProp(result, ForIn(schema)[i].k,
                    CastField(object, ForIn(schema)[i].k,
                              ForIn(schema)[i].v).value))

\* #cast(object, schema): what cast gives
castObject(object, schema) == CastFrom(object, schema, 1, Obj(<<>>))

(***************************************************************************)
(* The templates and records of the schema checks.  The templates declare  *)
(* one field f in each of the forms of the template language (a bare type  *)
(* tag, a descriptor with one option, bare or in the 2-element form), and  *)
(* there are the template of scenario A, a descriptor with several         *)
(* options, a nested mapping and an array literal.                         *)
(***************************************************************************)
MaxThreshold == 2

Thresholds == (0 - MaxThreshold) .. MaxThreshold

\* leafstore.SchemaTypes
SchemaTypes == {"string", "number", "boolean", "date", "array", "object"}

ThresholdOptions == {"minLength", "maxLength", "minValue", "maxValue"}

CustomMessage == Str("custom")

\* { type: tag, [option]: value }
Descriptor(tag, option, value) ==
    Obj(<<Entry("type", Str(tag)), Entry(option, value)>>)

\* { f: fieldProps }
Template(fieldProps) == Obj(<<Entry("f", fieldProps)>>)

BareTemplates == {Template(Str(tag)) : tag \in SchemaTypes}

RequiredTemplates ==
    {Template(Descriptor(tag, "required", Bool(TRUE))) : tag \in SchemaTypes}

ThresholdTemplates ==
    {Template(Descriptor(tag, option, Num(t))) :
        tag \in {"string", "number", "array"}, option \in ThresholdOptions,
        t \in Thresholds}

TupleTemplates ==
    {Template(Descriptor(tag, option, Arr(<<Num(t), CustomMessage>>))) :
        tag \in {"string", "number"}, option \in ThresholdOptions,
        t \in Thresholds}

\* { name: "string", age: { type: "number", minValue: 18 } }
ScenarioA ==
    Obj(<<Entry("name", Str("string")),
          Entry("age", Descriptor("number", "minValue", Num(MinAge)))>>)

\* { f: { type: "string", required: true, minLength: 1, maxLength: 2 } }
SeveralOptions ==
    Template(Obj(<<Entry("type", Str("string")),
                   Entry("required", Bool(TRUE)),
                   Entry("minLength", Num(1)),
                   Entry("maxLength", Num(MaxThreshold))>>))

\* { address: { city: { type: "string", required: true } } }
NestedTemplate ==
    Obj(<<Entry("address",
            Obj(<<Entry("city",
                    Descriptor("string", "required", Bool(TRUE)))>>))>>)

\* { tags: [{ label: { type: "string", required: true } }] }
ArrayTemplate ==
    Obj(<<Entry("tags",
            Arr(<<Obj(<<Entry("label",
                    Descriptor("string", "required", Bool(TRUE)))>>)>>))>>)

Templates ==
    BareTemplates \cup RequiredTemplates \cup ThresholdTemplates
    \cup TupleTemplates
    \cup {ScenarioA, SeveralOptions, NestedTemplate, ArrayTemplate}

\* the values of a field
FieldValues ==
    {Undefined}
    \cup {Num(n) : n \in (0 - MaxThreshold - 1) .. (MaxThreshold + 1)}
    \cup {Str(s) : s \in {"", "a", "ab", "abc"}}
    \cup {Arr(<<>>), Arr(<<Str("a")>>), Obj(<<>>),
          Obj(<<Entry("g", Num(1))>>)}

\* { name, age }
Named(name, age) == Obj(<<Entry("name", Str(name)), Entry("age", Num(age))>>)

\* the values of address and of an element of tags
Addresses ==
    {Obj(<<>>), Obj(<<Entry("city", Str(""))>>),
     Obj(<<Entry("city", Str("a"))>>),
     Obj(<<Entry("city", Str("a")), Entry("zip", Num(1))>>)}
Tags ==
    {Obj(<<>>), Obj(<<Entry("label", Str(""))>>),
     Obj(<<Entry("label", Str("a"))>>),
     Obj(<<Entry("label", Str("a")), Entry("colour", Num(1))>>)}

SchemaRecords ==
    {Obj(<<>>)}
    \cup {Obj(<<Entry("f", v)>>) : v \in FieldValues}
    \cup {Obj(<<Entry("f", v), Entry("extra", Num(1))>>) : v \in FieldValues}
    \cup {Named("a", MinAge - 1), Named("a", MinAge)}
    \cup {Obj(<<Entry("address", a)>>) : a \in Addresses}
    \cup {Obj(<<Entry("tags", Arr(<<t>>))>>) : t \in Tags}
    \cup {Obj(<<Entry("tags", Arr(<<t, u>>))>>) : t \in Tags, u \in Tags}
    \cup {Obj(<<Entry("tags", Str("a"))>>)}

(***************************************************************************)
(* The schema on its own: a schema is constructed from a template, and     *)
(* validate and cast are called on it.  calls holds the construction, with *)
(* the compiled _schema as its result, and then the calls of the methods.  *)
(***************************************************************************)
SchemaCall(op, object, result) ==
    [op |-> op, object |-> object, result |-> result]

\* new LeafstoreSchema(object)
Schema(object) ==
    SchemaCall("Schema", object, Return(generateSchema(object, "")))

InitSchema ==
    /\ store = EmptyObject
    /\ snapshot = store
    /\ _deletedKeys = <<>>
    /\ \E template \in Templates : calls = <<Schema(template)>>
    /\ txs = <<>>
    /\ timers = <<>>
    /\ docs = <<>>
    /\ lastSettled = 0
    /\ failures = 0
    /\ Connected

\* schema.validate(object)
SchemaValidate(object) ==
    /\ Len(calls) < MaxCalls
    /\ calls' = Append(calls,
            SchemaCall("validate", object,
                       validateObject(object, calls[1].result.value)))
    /\ UNCHANGED <<store, snapshot, _deletedKeys, txs, timers, docs,
                   lastSettled, failures>>
    /\ UNCHANGED registry

\* schema.cast(object)
SchemaCast(object) ==
    /\ Len(calls) < MaxCalls
    /\ calls' = Append(calls,
            SchemaCall("cast", object,
                       castObject(object, calls[1].result.value)))
    /\ UNCHANGED <<store, snapshot, _deletedKeys, txs, timers, docs,
                   lastSettled, failures>>
    /\ UNCHANGED registry

NextSchema ==
    \/ \E object \in SchemaRecords : SchemaValidate(object)
    \/ \E object \in SchemaRecords : SchemaCast(object)

SpecSchema == InitSchema /\ [][NextSchema]_vars

\* the last call is validate / cast on the schema constructed first
Validating == Len(calls) > 1 /\ calls[Len(calls)].op = "validate"
Casting == Len(calls) > 1 /\ calls[Len(calls)].op = "cast"

\* the record handed to the last call, and what the call gave
Input == calls[Len(calls)].object
Outcome == calls[Len(calls)].result

\* the fields the template declares with a descriptor
Described ==
    {i \in 1 .. Len(calls[1].object.entries) :
        HasOwn(calls[1].object.entries[i].v, "type")}

\* value violates the threshold t of option: it has a length, or is a
\* number, on the wrong side of t
Breaks(option, t, value) ==
    CASE option = "minLength" ->
            \/ value.type = "string" /\ StrLen(value.s) < t
            \/ value.type = "array" /\ Len(value.items) < t
      [] option = "maxLength" ->
            \/ value.type = "string" /\ StrLen(value.s) > t
            \/ value.type = "array" /\ Len(value.items) > t
      [] option = "minValue" -> value.type = "number" /\ value.n < t
      [] option = "maxValue" -> value.type = "number" /\ value.n > t

\* value violates an option of the descriptor fieldProps that is given as
\* true (required) or as a bare number
ViolatesBare(fieldProps, value) ==
    \/ Prop(fieldProps, "required").type = "boolean"
        /\ Prop(fieldProps, "required").n = 1
        /\ Falsy(value)
    \/ \E option \in ThresholdOptions :
        /\ Prop(fieldProps, option).type = "number"
        /\ Breaks(option, Prop(fieldProps, option).n, value)

\* validate threw an error naming the field
NamesField(outcome, name) == outcome.threw /\ outcome.error.name = name

\* C21: for every leaf declared with required, minLength, maxLength,
\* minValue or maxValue given as a bare number (0 and negative thresholds
\* included), validate raises an error naming the field whenever the
\* record's value is falsy while required, or its length or numeric value
\* violates the declared bound.
C21_BareThresholdEnforced ==
    Validating =>
        \A i \in Described :
            ViolatesBare(calls[1].object.entries[i].v,
                         Prop(Input, calls[1].object.entries[i].k))
            => NamesField(Outcome, calls[1].object.entries[i].k)

\* C22: validate enforces the constraints of leaves nested inside Object
\* nodes: a record whose address.city is falsy, city being declared
\* required inside the nested mapping address, is rejected by validate.
C22_NestedLeafEnforced ==
    ( Validating /\ calls[1].object = NestedTemplate )
    => ( Falsy(Prop(Prop(Input, "address"), "city")) => Outcome.threw )

\* value violates an option of the descriptor fieldProps that is given in
\* the 2-element (threshold, message) form; message is the second element
ViolatesTuple(fieldProps, value, message) ==
    \E option \in ThresholdOptions :
        /\ Prop(fieldProps, option).type = "array"
        /\ First(Prop(fieldProps, option)).type = "number"
        /\ Second(Prop(fieldProps, option)) = message
        /\ Breaks(option, First(Prop(fieldProps, option)).n, value)

\* C23: a minLength, maxLength, minValue or maxValue given in the
\* 2-element (threshold, custom message) form is enforced like the bare
\* threshold: a value violating the threshold is rejected, and the error
\* raised carries the custom message.
C23_TupleThresholdEnforced ==
    Validating =>
        \A i \in Described :
            ViolatesTuple(calls[1].object.entries[i].v,
                          Prop(Input, calls[1].object.entries[i].k),
                          CustomMessage)
            => Outcome.threw /\ Outcome.error.text = CustomMessage.s

\* value is absent or of the runtime type the tag names
OfType(tag, value) ==
    \/ value.type = "undefined"
    \/ tag.s \in {"boolean", "date"}
    \/ value.type = tag.s

\* value is absent, or is a number where a value bound is declared and
\* has a length where a length bound is declared
Measurable(fieldProps, value) ==
    \/ value.type = "undefined"
    \/ /\ ( HasOwn(fieldProps, "minValue") \/ HasOwn(fieldProps, "maxValue") )
            => value.type = "number"
       /\ ( HasOwn(fieldProps, "minLength") \/ HasOwn(fieldProps, "maxLength") )
            => value.type \in {"string", "array"}

RECURSIVE Complies(_, _)

\* record satisfies every constraint template declares: every required
\* field is truthy, every length and value lies within its bounds (bare or
\* in the 2-element form), a field that is present has the runtime type
\* its tag names and the kind of value its bounds measure, and the same holds of the children of a nested mapping
\* and of the elements of an array
Complies(template, record) ==
    /\ record.type = "object"
    /\ \A i \in 1 .. Len(template.entries) :
        LET fieldProps == template.entries[i].v
            value == Prop(record, template.entries[i].k)
            arrayOrAbsent == Falsy(value) \/ value.type = "array"
        IN CASE fieldProps.type = "string" -> OfType(fieldProps, value)
             [] fieldProps.type = "array" ->
                    /\ arrayOrAbsent
                    /\ value.type = "array" =>
                        \A j \in 1 .. Len(value.items) :
                            Complies(First(fieldProps), value.items[j])
             [] fieldProps.type = "object" /\ HasOwn(fieldProps, "type") ->
                    /\ ~ViolatesBare(fieldProps, value)
                    /\ ~ViolatesTuple(fieldProps, value, CustomMessage)
                    /\ OfType(Prop(fieldProps, "type"), value)
                    /\ Measurable(fieldProps, value)
             [] OTHER -> Complies(fieldProps, value)

\* C24: for every compiled schema, a record in which every required field
\* is truthy and every length and value lies within its declared bounds
\* validates without error.
C24_CompliantRecordValidates ==
    ( Validating /\ Complies(calls[1].object, Input) ) => ~Outcome.threw

\* the names of the properties of an object
PropertyNames(object) == {object.entries[i].k : i \in 1 .. Len(object.entries)}

RECURSIVE Shaped(_, _, _)

\* value has exactly the fields template declares (and _key at the root),
\* and so have the children of its nested mappings and the elements of its
\* arrays, an array field being an array
Shaped(template, value, root) ==
    /\ value.type = "object"
    /\ PropertyNames(value)
        = PropertyNames(template) \cup (IF root THEN {"_key"} ELSE {})
    /\ \A i \in 1 .. Len(template.entries) :
        LET fieldProps == template.entries[i].v
            field == Prop(value, template.entries[i].k)
        IN CASE fieldProps.type = "array" ->
                    /\ field.type = "array"
                    /\ \A j \in 1 .. Len(field.items) :
                        Shaped(First(fieldProps), field.items[j], FALSE)
             [] fieldProps.type = "object" /\ ~HasOwn(fieldProps, "type") ->
                    Shaped(fieldProps, field, FALSE)
             [] OTHER -> TRUE

\* C25: for every compiled schema and every input record, what cast
\* returns is a record whose field set is exactly the schema's declared field set at
\* every nesting level, children of Object nodes and elements of Array
\* nodes included: undeclared input fields are dropped and absent Array
\* fields become empty sequences.
C25_CastGivesDeclaredFields ==
    ( Casting /\ ~Outcome.threw )
    => Shaped(calls[1].object, Outcome.value, TRUE)

\* the fields the template declares as leaves: with a bare type tag or
\* with a descriptor
LeafFields ==
    {i \in 1 .. Len(calls[1].object.entries) :
        \/ calls[1].object.entries[i].v.type = "string"
        \/ HasOwn(calls[1].object.entries[i].v, "type")}

\* C26: cast copies the value of every leaf field through unchanged,
\* whatever the leaf's declared type tag (string, number, boolean, date,
\* array, object) and whatever the value's runtime type.
C26_CastCopiesLeaves ==
    Casting =>
        \A i \in LeafFields :
            /\ ~Outcome.threw
            /\ Prop(Outcome.value, calls[1].object.entries[i].k)
                = Prop(Input, calls[1].object.entries[i].k)

(***************************************************************************)
(* Documents: the caller reads documents, assigns to their fields and      *)
(* saves them.  The assignments are a valid name, an age below minValue    *)
(* (which makes save fail validation) and the primary key.                 *)
(***************************************************************************)
DocAssignments ==
    {<<"name", Str("Z")>>, <<"age", Num(MinAge - 1)>>, <<"_key", Key(MaxKey)>>}

InitDocument == InitWith(Stores([k \in Keys |-> ValidRecords(k)]))

NextDocument ==
    \/ \E k \in Keys : findByKey(Key(k))
    \/ find(AbsentQuery)
    \/ \E d \in Keys, a \in DocAssignments : DocSet(d, a[1], a[2])
    \/ \E d \in Keys : save(d)
    \/ StoreRespond
    \/ StoreFail

SpecDocument == InitDocument /\ [][NextDocument]_vars

\* this step is the call of save() on document d
Saving(d) ==
    /\ Len(calls') = Len(calls) + 1
    /\ calls'[Len(calls')].op = "save"
    /\ calls'[Len(calls')].doc = d

\* in this step the promise of the save() call c settles with status
SaveSettles(c, status) ==
    /\ calls[c].op = "save"
    /\ calls[c].status = "pending"
    /\ calls'[c].status = status

\* C27: save() on a document that is not dirty issues no store request and
\* returns the document itself; save() on a dirty document (whose record
\* passes validation) issues one upsert of its current record under the
\* document's own primary key, and when that upsert succeeds the dirty flag
\* is clear and the document's record equals the record now stored under
\* that key.
C27_SaveUpsertsDirtyDocument ==
    [][/\ \A d \in DOMAIN docs :
            Saving(d) =>
                IF ~docs[d]._isNew
                THEN /\ txs' = txs
                     /\ calls'[Len(calls')].status = "resolved"
                     /\ calls'[Len(calls')].result
                            = Result("this", <<docs[d]._object>>)
                ELSE validate(docs[d]._object) =>
                     /\ Len(txs') = Len(txs) + 1
                     /\ txs'[Len(txs')].call = Len(calls')
                     /\ Len(txs'[Len(txs')].reqs) = 1
                     /\ txs'[Len(txs')].reqs[1].type = "put"
                     /\ \A f \in DOMAIN docs[d]._object :
                            txs'[Len(txs')].reqs[1].object[f]
                                = docs[d]._object[f]
       /\ \A c \in DOMAIN calls :
            SaveSettles(c, "resolved") =>
                /\ ~docs'[calls[c].doc]._isNew
                /\ Get(docs'[calls[c].doc]._object, "_key") = calls[c].key
                /\ calls[c].key.n \in DOMAIN store'
                /\ store'[calls[c].key.n] = docs'[calls[c].doc]._object
                /\ Len(docs') = Len(docs)]_vars

\* a save() of a dirty document has issued its upsert and resolved
C27_Witness ==
    \E c \in DOMAIN calls :
        /\ calls[c].op = "save"
        /\ calls[c].status = "resolved"
        /\ calls[c].writes = 1
        /\ ~docs[calls[c].doc]._isNew

\* C28: a document's dirty flag is set by every field assignment and is
\* cleared only by a save() that succeeds: a save() that fails (validation
\* error or store error) leaves the flag and the document's record as they
\* were, and no other operation clears the flag.
C28_DirtyFlag ==
    [][\A d \in DOMAIN docs :
        /\ ( calls' = calls /\ docs'[d]._object # docs[d]._object )
            => docs'[d]._isNew
        /\ ( docs[d]._isNew /\ ~docs'[d]._isNew )
            => \E c \in DOMAIN calls :
                    calls[c].doc = d /\ SaveSettles(c, "resolved")
        /\ ( \/ Saving(d) /\ calls'[Len(calls')].status = "rejected"
             \/ \E c \in DOMAIN calls :
                    calls[c].doc = d /\ SaveSettles(c, "rejected") )
            => docs'[d] = docs[d]]_vars

\* a save() has failed and its document, assigned to before, is still dirty
C28_Witness ==
    \E c \in DOMAIN calls :
        /\ calls[c].op = "save"
        /\ calls[c].status = "rejected"
        /\ docs[calls[c].doc]._isNew

(***************************************************************************)
(* Store failures: every operation that settles its promise from the       *)
(* events of its requests, while the store may fail a request.             *)
(***************************************************************************)
InitRelay == InitWith(Stores([k \in Keys |-> ValidRecords(k)]))

NextRelay ==
    \/ create(Person("Y", 30))
    \/ insertOne(Record(1, "Y", 30), Undefined)
    \/ \E k \in Keys : findByKey(Key(k))
    \/ findOne(NameIsX)
    \/ find(AbsentQuery)
    \/ count(AbsentQuery)
    \/ \E k \in Keys : findByKeyAndUpdate(Key(k), SetNameY)
    \/ updateOne(NameIsX, SetNameY)
    \/ updateMany(NameIsX, SetNameY)
    \/ deleteAll
    \/ StoreRespond
    \/ StoreFail

SpecRelay == InitRelay /\ [][NextRelay]_vars

RelayOps ==
    {"create", "insertOne", "findByKey", "findOne", "find", "count",
     "findByKeyAndUpdate", "updateOne", "updateMany", "deleteAll"}

\* in this step the store fails a request of call c
FailEvent(c) ==
    /\ RequestEvent
    /\ failures' = failures + 1
    /\ Head(txs).call = c

\* C29: whenever the store fails an add, put, get, getAll or clear request
\* issued by create, insertOne, findByKey, findOne, find, count,
\* findByKeyAndUpdate, updateOne, updateMany or deleteAll, that operation's
\* promise rejects with the store's error unchanged; it never resolves
\* successfully for a write the store rejected.
C29_StoreErrorRelayed ==
    [][\A c \in DOMAIN calls :
        ( FailEvent(c) /\ calls[c].op \in RelayOps )
        => /\ calls'[c].status = "rejected"
           /\ calls'[c].error = "StoreError"]_vars

(***************************************************************************)
(* deleteAll on a collection that holds records, valid ones and one        *)
(* written before the template declared minValue, with reads and a write   *)
(* around it.                                                              *)
(***************************************************************************)
InitClear ==
    InitWith({st \in Stores([k \in Keys |-> LegacyRecords(k)]) :
                DOMAIN st # {}})

NextClear ==
    \/ create(Person("Y", 30))
    \/ deleteAll
    \/ find(AbsentQuery)
    \/ count(AbsentQuery)
    \/ StoreRespond
    \/ StoreFail

SpecClear == InitClear /\ [][NextClear]_vars

\* call d was made right after the promise of call c settled, and no write
\* was made between the two calls
ReadsAfter(c, d) ==
    /\ calls[d].after = c
    /\ calls[d].op \in {"find", "count"}
    /\ \A e \in DOMAIN calls : ( c < e /\ e < d ) => calls[e].op = "deleteAll"

\* C30: after deleteAll() resolves the collection holds no record (find()
\* returns the empty sequence and count() returns 0), whatever records
\* existed before; deleteAll performs no validation and does not read or
\* change the pending-delete cache: it issues the one clear request, its
\* promise resolves with the store empty and the cache as it was, and a
\* find() or count() made right after it resolved gives nothing.
C30_DeleteAllClears ==
    [][\A c \in DOMAIN calls' :
        calls'[c].op = "deleteAll" =>
            /\ c \notin DOMAIN calls =>
                /\ txs' = Append(txs, Transaction(c,
                            Request("clear", Undefined, EmptyObject,
                                    "deleteAll.clear", <<>>)))
                /\ calls'[c].status = "pending"
                /\ _deletedKeys' = _deletedKeys
            /\ ( c \in DOMAIN calls /\ calls[c].status = "pending"
                 /\ calls'[c].status = "resolved" )
                => /\ DOMAIN store' = {}
                   /\ _deletedKeys' = _deletedKeys
                   /\ ~calls'[c].vfail
            /\ \A d \in DOMAIN calls :
                ( c \in DOMAIN calls /\ calls[c].status = "resolved"
                  /\ ReadsAfter(c, d) /\ AnsweringRead(d) )
                => /\ calls'[d].status = "resolved"
                   /\ calls'[d].result.docs = <<>>]_vars

\* deleteAll has resolved on a collection that held records, and a find()
\* made right after it has resolved with the empty sequence
C30_Witness ==
    \E c \in DOMAIN calls : \E d \in DOMAIN calls :
        /\ calls[c].op = "deleteAll"
        /\ calls[c].status = "resolved"
        /\ calls[d].op = "find"
        /\ calls[d].after = c
        /\ calls[d].status = "resolved"
        /\ calls[d].result.docs = <<>>

(***************************************************************************)
(* The registry of models across connect().                                *)
(***************************************************************************)
InitRegistry ==
    /\ store = EmptyObject
    /\ snapshot = store
    /\ _deletedKeys = <<>>
    /\ calls = <<>>
    /\ txs = <<>>
    /\ timers = <<>>
    /\ docs = <<>>
    /\ lastSettled = 0
    /\ failures = 0
    /\ leafstore = [_db |-> "null", _models |-> [name \in {} |-> 0]]
    /\ models = <<>>
    /\ idb \in {Database(S) : S \in SUBSET ModelNames}

NextRegistry ==
    \/ \E name \in ModelNames \cup {""} : Model(name, "userSchema")
    \/ connect
    \/ onupgradeneeded
    \/ onopensuccess
    \/ onschemasuccess
    \/ onopenerror

SpecRegistry == InitRegistry /\ [][NextRegistry]_vars

\* the calls of Model that returned a model
ModelCalls == {c \in DOMAIN calls : calls[c].op = "Model" /\ calls[c].returned # 0}

\* connect() has resolved and the read of the stored schemas has finished
ConnectFinished ==
    /\ \E c \in DOMAIN calls : calls[c].op = "connect" /\ calls[c].status = "resolved"
    /\ idb.events = <<>>

\* C31: Model(name, schema) returns the same object for the same name on
\* every call, before and after connect() and its read of the stored
\* schemas; once that has finished, the model registered under a name has
\* the database handle and the object store name of the model that
\* Model returned for the name.
C31_SameModelInstance ==
    /\ \A c \in ModelCalls : \A d \in ModelCalls :
            calls[c].name = calls[d].name =>
                calls[c].returned = calls[d].returned
    /\ ConnectFinished =>
            \A c \in ModelCalls :
                /\ models[leafstore._models[calls[c].name]]._db = "IDBDatabase"
                /\ models[leafstore._models[calls[c].name]]._objectStoreName =
                        models[calls[c].returned]._objectStoreName

(***************************************************************************)
(* The pending-delete cache.                                               *)
(***************************************************************************)
\* the keys the delete call c identifies as its targets in this step: the
\* key given to findByKeyAndDelete when the call is made, the keys of the
\* matched records when deleteOne's or deleteMany's read is answered
Identified(c) ==
    IF calls'[c].op = "findByKeyAndDelete"
    THEN IF c \notin DOMAIN calls /\ calls'[c].status = "pending"
         THEN {calls'[c].key} ELSE {}
    ELSE calls'[c].targets \ (IF c \in DOMAIN calls THEN calls[c].targets ELSE {})

\* this step is the store confirming the deletion of key
Confirms(key) ==
    /\ DeleteEvent
    /\ failures' = failures
    /\ Head(Head(txs).reqs).key = key

\* C32: for deleteOne, deleteMany and findByKeyAndDelete each target key is
\* in the pending-delete cache at the end of the step in which the call
\* identifies it (so before its deletion is requested from the store and
\* before the promise resolves), and a key leaves the cache only in the
\* step in which the store confirms the deletion of that key.
C32_TargetsCachedUntilConfirmed ==
    [][/\ \A c \in DOMAIN calls' :
            calls'[c].op \in DeleteOps =>
                \A key \in Identified(c) : Includes(_deletedKeys', key)
       /\ \A k \in Keys :
            ( Includes(_deletedKeys, Key(k)) /\ ~Includes(_deletedKeys', Key(k)) )
            => Confirms(Key(k))]_vars

(***************************************************************************)
(* Updates of several records, and what an update's promise tells.         *)
(***************************************************************************)
\* in this step the store fails a put of the updateMany call c
PutFails(c) ==
    /\ FailEvent(c)
    /\ calls[c].op = "updateMany"
    /\ Head(Head(txs).reqs).cb = "updateMany.put"

\* C33: updateMany writes each matched record with an upsert that is
\* committed on its own: when the store fails the upsert of the k-th matched
\* record, the store keeps what it held at that moment (the records upserted
\* before it updated, the others as they were) and the promise rejects with
\* that failure.
C33_UpdateManyPartialFailure ==
    [][\A c \in DOMAIN calls :
        PutFails(c)
        => /\ store' = store
           /\ calls'[c].status = "rejected"
           /\ calls'[c].error = "StoreError"]_vars

\* the promise of call c resolves in this step
Resolves(c) ==
    /\ calls[c].status = "pending"
    /\ calls'[c].status = "resolved"

\* the records of the put requests that the transactions hold for call c
PutObjects(transactions, c) ==
    UNION {{transactions[i].reqs[j].object :
                j \in {l \in DOMAIN transactions[i].reqs :
                            transactions[i].reqs[l].type = "put"}} :
           i \in {l \in DOMAIN transactions : transactions[l].call = c}}

\* the records call c writes: those of the puts it has issued by the end of
\* this step, the one the store answers in this step included
Written(c) == PutObjects(txs, c) \cup PutObjects(txs', c)

\* the primary key and the declared fields of a record
Declared(object) == [f \in DOMAIN _schema |-> Get(object, f)]

\* C34: the Document(s) that findByKeyAndUpdate, updateOne and updateMany
\* resolve with wrap exactly the merged records the call writes to the
\* store: the same primary keys and, for every declared field, the same
\* value as the record written.
C34_ResolvedDocumentsAreWritten ==
    [][\A c \in DOMAIN calls :
        ( Resolves(c) /\ calls[c].op \in UpdateOps )
        => {Declared(calls'[c].result.docs[i]) :
                i \in DOMAIN calls'[c].result.docs}
             = {Declared(object) : object \in Written(c)}]_vars

\* C35: findByKeyAndUpdate and updateMany resolve only after the store has
\* confirmed the upsert of every record they target: at the end of the step
\* in which the promise resolves no put of the call is outstanding.
C35_ResolvesAfterEveryPut ==
    [][\A c \in DOMAIN calls :
        ( Resolves(c) /\ calls[c].op \in {"findByKeyAndUpdate", "updateMany"} )
        => PutObjects(txs', c) = {}]_vars

(***************************************************************************)
(* Writing after a delete call has resolved: the delete calls are made     *)
(* first, and create and insertOne are called only once every delete call  *)
(* made has resolved (in the continuation of its promise or later).        *)
(***************************************************************************)
\* some delete call was made, and every one made has resolved
DeletesResolved ==
    /\ calls # <<>>
    /\ \A c \in DOMAIN calls :
            calls[c].op \in {"deleteOne", "deleteMany"}
                => calls[c].status = "resolved"

\* no create or insertOne call was made yet
NothingWritten ==
    \A c \in DOMAIN calls : calls[c].op \notin {"create", "insertOne"}

InitReinsert == InitWith(Stores([k \in Keys |-> ValidRecords(k)]))

NextReinsert ==
    \/ NothingWritten /\ \E q \in {NameIsX, AbsentQuery} : deleteOne(q)
    \/ NothingWritten /\ \E q \in {NameIsX, AbsentQuery} : deleteMany(q)
    \/ DeletesResolved /\ create(Person("Y", 30))
    \/ DeletesResolved /\ \E k \in Keys : insertOne(Record(k, "Y", 30), Undefined)
    \/ StoreRespond
    \/ StoreFail
    \/ TimerFire

SpecReinsert == InitReinsert /\ [][NextReinsert]_vars

\* the create and insertOne calls that have resolved
WriteCalls ==
    {c \in DOMAIN calls : /\ calls[c].op \in {"create", "insertOne"}
                          /\ calls[c].status = "resolved"}

\* the key of the record the resolved call c wrote
WrittenKey(c) == Get(calls[c].result.docs[1], "_key")

\* C36: a record written by create or insertOne after a deleteOne or
\* deleteMany call has resolved is never removed by that delete call, also
\* when it reuses a key the delete targeted: once the store has processed
\* every request, the store holds under the record's key what the last
\* write call to that key wrote.
C36_LaterInsertSurvivesDelete ==
    ( txs = <<>> /\ timers = <<>> )
    => \A c \in WriteCalls :
            /\ WrittenKey(c).n \in DOMAIN store
            /\ \E d \in WriteCalls :
                    /\ d >= c
                    /\ WrittenKey(d) = WrittenKey(c)
                    /\ store[WrittenKey(c).n] = calls[d].result.docs[1]

(***************************************************************************)
(* Assigning to a document while its save() is in flight.                  *)
(***************************************************************************)
\* the document of the save() call c was assigned to after save() was
\* called: its record is no longer the one save() handed to insertOne
AssignedSince(c) == docs[calls[c].doc]._object # calls[c].object

\* C37: an assignment made to a field of a document while a save() of it
\* is in flight is not lost: when that save resolves, the document still
\* reads the values it read just before, the assigned one among them, and
\* is dirty.
C37_AssignmentDuringSaveKept ==
    [][\A c \in DOMAIN calls :
        ( SaveSettles(c, "resolved") /\ AssignedSince(c) )
        => /\ docs'[calls[c].doc]._object = docs[calls[c].doc]._object
           /\ docs'[calls[c].doc]._isNew]_vars

(***************************************************************************)
(* Concurrent updates of one record: updateOne and findByKeyAndUpdate      *)
(* calls made in any order and at any time, each with a patch of one       *)
(* field.                                                                  *)
(***************************************************************************)
\* the patches: each over one field
FieldPatches == {"name" :> Str("Y"), "age" :> Num(30)}

InitConcurrent == InitWith(Stores([k \in Keys |-> ValidRecords(k)]))

NextConcurrent ==
    \/ \E q \in {EmptyQuery, NameIsX} : \E o \in FieldPatches : updateOne(q, o)
    \/ \E k \in Keys : \E o \in FieldPatches : findByKeyAndUpdate(Key(k), o)
    \/ StoreRespond
    \/ StoreFail

SpecConcurrent == InitConcurrent /\ [][NextConcurrent]_vars

\* c and d are two resolved updateOne / findByKeyAndUpdate calls against
\* the same record, with patches over disjoint fields
BothUpdated(c, d) ==
    /\ c # d
    /\ calls[c].op \in {"updateOne", "findByKeyAndUpdate"}
    /\ calls[d].op \in {"updateOne", "findByKeyAndUpdate"}
    /\ calls[c].status = "resolved"
    /\ calls[d].status = "resolved"
    /\ calls[c].targets # {}
    /\ calls[c].targets = calls[d].targets
    /\ DOMAIN calls[c].object \cap DOMAIN calls[d].object = {}

\* the record stored under key carries the values of patch
Carries(key, patch) ==
    /\ key.n \in DOMAIN store
    /\ \A f \in DOMAIN patch : store[key.n][f] = patch[f]

\* C38: two updateOne or findByKeyAndUpdate calls made against the same
\* record with patches over disjoint fields both take effect: once both
\* have resolved, the stored record carries the values of both patches.
C38_ConcurrentUpdatesBothApply ==
    \A c \in DOMAIN calls : \A d \in DOMAIN calls :
        BothUpdated(c, d) =>
            \A key \in calls[c].targets :
                Carries(key, calls[c].object) /\ Carries(key, calls[d].object)

(***************************************************************************)
(* What the pending-delete cache holds.                                    *)
(***************************************************************************)
\* a deletion of key is outstanding: its request is with the store, or the
\* timer that will issue it has not run yet
Outstanding(key) ==
    \/ \E i \in DOMAIN txs : \E j \in DOMAIN txs[i].reqs :
            txs[i].reqs[j].type = "delete" /\ txs[i].reqs[j].key = key
    \/ \E i \in DOMAIN timers : timers[i] = key

\* C39: the pending-delete cache holds only keys whose deletion is still
\* outstanding at the store: whenever no deletion of the model is
\* outstanding, each one having been confirmed or having failed, the cache
\* is empty, so that it hides no record that is still stored.
C39_CacheHoldsOutstandingOnly ==
    /\ \A i \in DOMAIN _deletedKeys : Outstanding(_deletedKeys[i])
    /\ ( \A k \in Keys : ~Outstanding(Key(k)) ) => _deletedKeys = <<>>

\* the store has failed the deletion a delete call scheduled: nothing is
\* outstanding any more and the target is still stored
C39_Witness ==
    /\ failures > 0
    /\ \A k \in Keys : ~Outstanding(Key(k))
    /\ \E c \in DOMAIN calls :
            /\ calls[c].op \in {"deleteOne", "deleteMany"}
            /\ calls[c].status = "resolved"
            /\ \E key \in calls[c].targets : key.n \in DOMAIN store

====
